---- MODULE Spec2Model ----
(***************************************************************************)
(* Model of the AI todo manager's two server routes:                       *)
(*   - the natural-language extraction route (preprocessInput,             *)
(*     validateInput, postprocessTodoData, POST)                           *)
(*   - the summary route (filterTodosByPeriod, statistics, POST)           *)
(*                                                                         *)
(* Strings are kept run-length encoded: a string is a sequence of runs     *)
(* [c |-> class, n |-> count], the class being "L" (letter or digit),      *)
(* "S" (whitespace) or "P" (punctuation or symbol).  Length, trim,         *)
(* substring, whitespace collapsing and concatenation are computed on the  *)
(* runs exactly as the JavaScript string methods compute them on the       *)
(* characters.                                                             *)
(***************************************************************************)
EXTENDS Integers, Sequences, FiniteSets, TLC

VARIABLES
    sanPc, sanRaw, sanResult,
    ppPc, ppReply, ppInput, ppClock, ppOut, ppOut2,
    exPc, exReq, exNow, exValidation, exPrompt, exModelCalls, exCall, exResp,
    store, smPc, smReq, smNow, smTodos, smPrompt, smModelCalls, smCall, smResp,
    mwPc, mwReq, mwSession, mwResp,
    dbUser, dbStore, dbNextId, dbTodos, dbEditingTodo, dbDeleteTodoId, dbLoading, dbSignOutTimer, dbCalls,
    auSession, authState, auFetch, auSignOut

sanVars == <<sanPc, sanRaw, sanResult>>
ppVars == <<ppPc, ppReply, ppInput, ppClock, ppOut, ppOut2>>

exVars == <<exPc, exReq, exNow, exValidation, exPrompt, exModelCalls, exCall, exResp>>

smVars ==
    <<store, smPc, smReq, smNow, smTodos, smPrompt, smModelCalls, smCall, smResp>>

mwVars == <<mwPc, mwReq, mwSession, mwResp>>

dbVars == <<dbUser, dbStore, dbNextId, dbTodos, dbEditingTodo, dbDeleteTodoId, dbLoading, dbSignOutTimer, dbCalls>>

auVars == <<auSession, authState, auFetch, auSignOut>>

vars == <<sanVars, ppVars, exVars, smVars, mwVars, dbVars, auVars>>

NULL == [k |-> "null"]

\* a field of enumerated type that is absent
Undefined == "undefined"

(***************************************************************************)
(* Bounds of the model and constants of the program.                       *)
(***************************************************************************)
MaxRuns == 3

MinInputLen == 2
MaxInputLen == 500

Classes == {"L", "S", "P"}

\* run lengths around the limits of validateInput
RunLens == {MinInputLen - 1, MinInputLen, MaxInputLen - 1, MaxInputLen, MaxInputLen + 1}

(***************************************************************************)
(* String primitives on run-length encoded strings.                        *)
(***************************************************************************)
RECURSIVE StrLen(_)
StrLen(s) == IF s = <<>> THEN 0 ELSE Head(s).n + StrLen(Tail(s))

Last(s) == s[Len(s)]
Front(s) == SubSeq(s, 1, Len(s) - 1)

\* s + t, merging the runs that meet when they have the same class
Concat(s, t) ==
    IF s = <<>> THEN t
    ELSE IF t = <<>> THEN s
    ELSE IF Last(s).c = Head(t).c
         THEN Front(s) \o <<[c |-> Head(t).c, n |-> Last(s).n + Head(t).n]>> \o Tail(t)
         ELSE s \o t

RECURSIVE TrimStart(_)
TrimStart(s) ==
    IF s = <<>> THEN s
    ELSE IF Head(s).c = "S" THEN TrimStart(Tail(s)) ELSE s

RECURSIVE TrimEnd(_)
TrimEnd(s) ==
    IF s = <<>> THEN s
    ELSE IF Last(s).c = "S" THEN TrimEnd(Front(s)) ELSE s

\* String.prototype.trim
Trim(s) == TrimEnd(TrimStart(s))

\* String.prototype.substring(0, k)
RECURSIVE Substring0(_, _)
Substring0(s, k) ==
    IF s = <<>> \/ k <= 0 THEN <<>>
    ELSE IF Head(s).n <= k
         THEN <<Head(s)>> \o Substring0(Tail(s), k - Head(s).n)
         ELSE <<[c |-> Head(s).c, n |-> k]>>

\* replace(/\s+/g, " ")
CollapseSpaces(s) ==
    [i \in 1..Len(s) |-> IF s[i].c = "S" THEN [c |-> "S", n |-> 1] ELSE s[i]]

\* /^[^\p{L}\p{N}]+$/u
SpecialCharOnly(s) == s # <<>> /\ \A i \in 1..Len(s) : s[i].c # "L"

(***************************************************************************)
(* Input Sanitizer.                                                        *)
(***************************************************************************)
preprocessInput(input) == CollapseSpaces(Trim(input))

validateInput_OffByOne(input) ==
    IF StrLen(Trim(input)) = 0 THEN [isValid |-> FALSE, error |-> "EmptyInput"]
    ELSE IF StrLen(Trim(input)) < MinInputLen THEN [isValid |-> FALSE, error |-> "TooShort"]
    ELSE IF StrLen(input) >= MaxInputLen THEN [isValid |-> FALSE, error |-> "TooLong"]
    ELSE IF SpecialCharOnly(Trim(input)) THEN [isValid |-> FALSE, error |-> "NoMeaningfulContent"]
    ELSE [isValid |-> TRUE, error |-> "none"]

validateInput(input) ==
    IF input = <<>> \/ StrLen(Trim(input)) = 0
    THEN [isValid |-> FALSE, error |-> "EmptyInput"]
    ELSE IF StrLen(Trim(input)) < MinInputLen
    THEN [isValid |-> FALSE, error |-> "TooShort"]
    ELSE IF StrLen(input) > MaxInputLen
    THEN [isValid |-> FALSE, error |-> "TooLong"]
    ELSE IF SpecialCharOnly(Trim(input))
    THEN [isValid |-> FALSE, error |-> "NoMeaningfulContent"]
    ELSE [isValid |-> TRUE, error |-> "none"]

\* the raw inputs: every string of at most MaxRuns runs
RawInputs ==
    {s \in UNION {[1..k -> [c : Classes, n : RunLens]] : k \in 0..MaxRuns} :
        \A i \in 1..(Len(s) - 1) : s[i].c # s[i + 1].c}

(***************************************************************************)
(* The sanitizer applied to one raw input.                                 *)
(***************************************************************************)
Sanitize ==
    /\ sanPc = "input"
    /\ sanPc' = "done"
    /\ sanResult' = [validation |-> validateInput(preprocessInput(sanRaw)),
                     text |-> preprocessInput(sanRaw)]
    /\ UNCHANGED sanRaw

(***************************************************************************)
(* Dates and times of the extraction route.  A calendar date is a day      *)
(* number.  A date string is one of                                        *)
(*   [k |-> "empty"]                      the empty string                 *)
(*   [k |-> "date", d |-> day]            "yyyy-MM-dd"                     *)
(*   [k |-> "datetime", d |-> day, t |-> time]   "yyyy-MM-ddTHH:mm:00"     *)
(*   [k |-> "text"]                       a non-empty string that is no    *)
(*                                        ISO date ("null", "tomorrow")    *)
(*   [k |-> "suffixed", of |-> string, t |-> time]                         *)
(*                                        string + "T" + time + ":00" of a *)
(*                                        string that is no "yyyy-MM-dd"   *)
(* A time string is [k |-> "empty"] or [k |-> "time", h |-> hh, m |-> mm]. *)
(***************************************************************************)
EmptyString == [k |-> "empty"]

Str(s) == [k |-> "str", s |-> s]

\* JavaScript truthiness of a nullable string
Falsy(x) == x = NULL \/ x = EmptyString \/ x = Str(<<>>)

DefaultDueTime == [k |-> "time", h |-> 9, m |-> 0]

DateString(day) == [k |-> "date", d |-> day]

\* format(date, "yyyy-MM-dd")
FormatDate(day) == DateString(day)

\* `${date}T${time}:00`
WithTime(date, time) ==
    IF date.k = "date"
    THEN [k |-> "datetime", d |-> date.d, t |-> time]
    ELSE [k |-> "suffixed", of |-> date, t |-> time]

\* date-fns parseISO of a string: an instant, or Invalid Date; it does not
\* throw on a string argument
parseISO(s) ==
    IF s.k = "date" THEN [k |-> "instant", d |-> s.d, h |-> 0, m |-> 0]
    ELSE IF s.k = "datetime" THEN [k |-> "instant", d |-> s.d, h |-> s.t.h, m |-> s.t.m]
    ELSE [k |-> "invalid"]

\* date-fns startOfDay
startOfDay(day) == [k |-> "instant", d |-> day, h |-> 0, m |-> 0]

\* date-fns isBefore: false when either date is invalid
isBefore(a, b) ==
    /\ a.k = "instant"
    /\ b.k = "instant"
    /\ \/ a.d < b.d
       \/ a.d = b.d /\ a.h < b.h
       \/ a.d = b.d /\ a.h = b.h /\ a.m < b.m

(***************************************************************************)
(* Extraction Post-Processor.  clockDay is the day of the clock read by    *)
(* startOfDay(new Date()) inside the function; currentDate is the string   *)
(* the route formatted before it called the model.                         *)
(***************************************************************************)
MinTitleLen == 2
MaxTitleLen == 100
TitleKeep == 97
FallbackLen == 20

Ellipsis == <<[c |-> "P", n |-> 3]>>

repairTitle_AppendOnly(modelTitle, originalInput) ==
    LET short == IF StrLen(Trim(modelTitle)) < MinTitleLen
                 THEN Substring0(Trim(originalInput), FallbackLen)
                 ELSE modelTitle
        long == IF StrLen(short) > MaxTitleLen THEN Concat(short, Ellipsis) ELSE short
    IN  Trim(long)

repairTitle_RawLength(modelTitle, originalInput) ==
    LET short == IF StrLen(modelTitle) < MinTitleLen
                 THEN Substring0(Trim(originalInput), FallbackLen)
                 ELSE modelTitle
        long == IF StrLen(short) > MaxTitleLen
                THEN Concat(Substring0(short, TitleKeep), Ellipsis)
                ELSE short
    IN  Trim(long)

\* lines 85-100
repairTitle(modelTitle, originalInput) ==
    LET short == IF StrLen(Trim(modelTitle)) < MinTitleLen
                 THEN Substring0(Trim(originalInput), FallbackLen)
                 ELSE modelTitle
        long == IF StrLen(short) > MaxTitleLen
                THEN Concat(Substring0(short, TitleKeep), Ellipsis)
                ELSE short
    IN  Trim(long)

defaultFields_NoDescription(parsedTodo, originalInput) ==
    [priority |-> IF parsedTodo.priority = Undefined THEN "medium" ELSE parsedTodo.priority,
     category |-> IF parsedTodo.category = Undefined THEN "other" ELSE parsedTodo.category,
     description |-> parsedTodo.description]

\* lines 102-105
defaultFields(parsedTodo, originalInput) ==
    [priority |-> IF parsedTodo.priority = Undefined THEN "medium" ELSE parsedTodo.priority,
     category |-> IF parsedTodo.category = Undefined THEN "other" ELSE parsedTodo.category,
     description |-> IF ~Falsy(parsedTodo.description) THEN parsedTodo.description
                     ELSE Str(originalInput)]

repairDueDate_KeepPast(parsedTodo, currentDate, clockDay) ==
    IF Falsy(parsedTodo.due_date) THEN NULL
    ELSE WithTime(parsedTodo.due_date,
                  IF Falsy(parsedTodo.due_time) THEN DefaultDueTime ELSE parsedTodo.due_time)

\* lines 107-130; the catch branch (due date null) is taken only when
\* parseISO throws, which it does not do for a string
repairDueDate(parsedTodo, currentDate, clockDay) ==
    IF Falsy(parsedTodo.due_date) THEN NULL
    ELSE LET parsedDate == parseISO(parsedTodo.due_date)
             today == startOfDay(clockDay)
             time == IF Falsy(parsedTodo.due_time) THEN DefaultDueTime
                     ELSE parsedTodo.due_time
         IN  IF parsedDate.k = "throw" THEN NULL
             ELSE IF isBefore(parsedDate, today)
                  THEN WithTime(currentDate, time)
                  ELSE WithTime(parsedTodo.due_date, time)

postprocessTodoData(parsedTodo, originalInput, currentDate, clockDay) ==
    LET fields == defaultFields(parsedTodo, originalInput)
    IN  [title |-> repairTitle(parsedTodo.title, originalInput),
         description |-> fields.description,
         priority |-> fields.priority,
         category |-> fields.category,
         due_date |-> repairDueDate(parsedTodo, currentDate, clockDay)]

\* the post-processor's result read back as a model reply: it has no due_time
AsParsedTodo(result) ==
    [title |-> result.title,
     due_date |-> result.due_date,
     due_time |-> NULL,
     priority |-> result.priority,
     category |-> result.category,
     description |-> result.description]

(***************************************************************************)
(* The inputs of the post-processor.                                       *)
(***************************************************************************)
MaxTitleRuns == 3
MaxDayOffset == 3

TitleLens == {MinTitleLen - 1, MinTitleLen, MaxTitleLen - 1, MaxTitleLen + 1}

ModelTitles ==
    {s \in UNION {[1..k -> [c : {"L", "S"}, n : TitleLens]] : k \in 0..MaxTitleRuns} :
        \A i \in 1..(Len(s) - 1) : s[i].c # s[i + 1].c}

FallbackLens == {1, FallbackLen - 1}

\* the texts the sanitizer lets through
SanitizedInputs ==
    LET raws == {s \in UNION {[1..k -> [c : Classes, n : FallbackLens]] : k \in 0..MaxRuns} :
                    \A i \in 1..(Len(s) - 1) : s[i].c # s[i + 1].c}
    IN  {preprocessInput(r) : r \in {x \in raws : validateInput(preprocessInput(x)).isValid}}

ReferenceDay == MaxDayOffset

ModelDueDates ==
    {EmptyString, [k |-> "text"]} \cup {DateString(d) : d \in 0..(2 * MaxDayOffset)}

ModelDueTimes == {NULL, EmptyString, [k |-> "time", h |-> 15, m |-> 0]}

Priorities == {"high", "medium", "low"}
Categories == {"work", "personal", "learning", "other"}

ModelDescriptions == {NULL, Str(<<>>), Str(<<[c |-> "L", n |-> 5]>>)}

PlainInput == <<[c |-> "L", n |-> 3], [c |-> "S", n |-> 1], [c |-> "L", n |-> 4]>>
PlainTitle == <<[c |-> "L", n |-> 4]>>

\* replies that vary the title and the input text
TitleCases ==
    {[reply |-> [title |-> t, due_date |-> dd, due_time |-> NULL, priority |-> "high",
                 category |-> "work", description |-> NULL],
      input |-> inp,
      clock |-> [day |-> ReferenceDay, today |-> ReferenceDay]] :
        t \in ModelTitles, inp \in SanitizedInputs,
        dd \in {EmptyString, DateString(0)}}

\* replies that vary the date, the time and the optional fields; the clock
\* read inside the post-processor may already be on the next day
DateCases ==
    {[reply |-> [title |-> PlainTitle, due_date |-> dd, due_time |-> dt, priority |-> p,
                 category |-> c, description |-> ds],
      input |-> PlainInput,
      clock |-> [day |-> ReferenceDay, today |-> td]] :
        dd \in ModelDueDates, dt \in ModelDueTimes,
        p \in {"high", "low", Undefined}, c \in {"work", Undefined},
        ds \in ModelDescriptions, td \in {ReferenceDay, ReferenceDay + 1}}

\* postprocessTodoData(parsedTodo, preprocessedInput, currentDate)
Postprocess ==
    /\ ppPc = "input"
    /\ ppPc' = "once"
    /\ ppOut' = postprocessTodoData(ppReply, ppInput, FormatDate(ppClock.day), ppClock.today)
    /\ UNCHANGED <<ppReply, ppInput, ppClock, ppOut2>>

\* the post-processor run on its own result, same input and same current date
PostprocessAgain ==
    /\ ppPc = "once"
    /\ ppPc' = "twice"
    /\ ppOut2' = postprocessTodoData(AsParsedTodo(ppOut), ppInput,
                                     FormatDate(ppClock.day), ppClock.today)
    /\ UNCHANGED <<ppReply, ppInput, ppClock, ppOut>>

(***************************************************************************)
(* Temporal Resolver of the extraction route.  Day numbers count days      *)
(* since 1970-01-01, a Thursday.                                           *)
(***************************************************************************)
\* Date.prototype.getDay: 0 = Sunday ... 6 = Saturday
getDay(day) == (day + 4) % 7

\* date-fns addDays
addDays(day, amount) == day + amount

daysUntilFriday_NextWeek(currentDayOfWeek) ==
    IF currentDayOfWeek < 5 THEN 5 - currentDayOfWeek ELSE 5 + 7 - currentDayOfWeek

\* line 291
daysUntilFriday(currentDayOfWeek) ==
    IF currentDayOfWeek <= 5 THEN 5 - currentDayOfWeek ELSE 5 + 7 - currentDayOfWeek

\* line 296
daysUntilNextMonday(currentDayOfWeek) ==
    IF currentDayOfWeek = 1 THEN 7 ELSE 8 - currentDayOfWeek

\* lines 247-258 and 285-298: the dates written into the prompt
temporalContext(nowDay) ==
    [currentDate |-> FormatDate(nowDay),
     currentWeekday |-> getDay(nowDay),
     tomorrowDate |-> FormatDate(addDays(nowDay, 1)),
     dayAfterTomorrowDate |-> FormatDate(addDays(nowDay, 2)),
     thisWeekFridayDate |-> FormatDate(addDays(nowDay, daysUntilFriday(getDay(nowDay)))),
     nextMondayDate |-> FormatDate(addDays(nowDay, daysUntilNextMonday(getDay(nowDay))))]

(***************************************************************************)
(* The call of generateObject of a request: NULL before it is made, then   *)
(* pending, pending past any deadline, answered with an object, or thrown. *)
(***************************************************************************)
Pending == [k |-> "pending"]

Late == [k |-> "late"]

Replied(object) == [k |-> "reply", object |-> object]

Threw(error) == [k |-> "error", error |-> error]

(***************************************************************************)
(* Errors thrown by the model call.  A message is the set of the phrases   *)
(* it contains, written as the provider writes them; statusCode is 0 when  *)
(* the error carries none.                                                 *)
(***************************************************************************)
LowerCase(phrase) ==
    CASE phrase = "API key" -> "api key"
      [] phrase = "Quota exceeded" -> "quota exceeded"
      [] phrase = "Rate limit" -> "rate limit"
      [] OTHER -> phrase

\* the needles of the two routes that occur inside a phrase
PhraseIncludes(phrase, needle) ==
    \/ phrase = needle
    \/ phrase \in {"quota exceeded", "check quota"} /\ needle = "quota"
    \/ phrase = "invalid api key" /\ needle \in {"api key", "invalid"}
    \/ phrase = "model not found" /\ needle \in {"model", "not found"}
    \/ phrase = "fetch failed" /\ needle = "fetch"

\* String.prototype.includes on the message
Includes(message, needle) == \E phrase \in message : PhraseIncludes(phrase, needle)

ToLowerCase(message) == {LowerCase(phrase) : phrase \in message}

ModelErrors ==
    {[message |-> {"429"}, statusCode |-> 429],
     [message |-> {"Too Many Requests"}, statusCode |-> 429],
     [message |-> {"rate limit"}, statusCode |-> 0],
     [message |-> {"quota exceeded"}, statusCode |-> 0],
     [message |-> {"check quota"}, statusCode |-> 0],
     [message |-> {"invalid api key"}, statusCode |-> 0],
     [message |-> {"API key"}, statusCode |-> 0],
     [message |-> {"model not found"}, statusCode |-> 0],
     [message |-> {"fetch failed"}, statusCode |-> 0],
     [message |-> {"No object generated"}, statusCode |-> 0],
     [message |-> {"timeout"}, statusCode |-> 0]}

\* lines 410-415
isRateLimitError(aiError) ==
    \/ Includes(aiError.message, "429")
    \/ Includes(aiError.message, "rate limit")
    \/ Includes(aiError.message, "quota")
    \/ aiError.statusCode = 429

\* lines 465-559: the response of the outer catch block
extractErrorResponse(error) ==
    LET errorMessage == ToLowerCase(error.message)
    IN  IF \E needle \in {"api key", "authentication", "401", "403", "unauthorized",
                          "invalid api key", "api key not found"} :
               Includes(errorMessage, needle)
        THEN [status |-> 500, code |-> "AUTH_ERROR"]
        ELSE IF \/ Includes(error.message, "429")
                \/ Includes(error.message, "rate limit")
                \/ Includes(error.message, "quota exceeded")
                \/ error.statusCode = 429
        THEN [status |-> 429, code |-> "RATE_LIMIT_EXCEEDED"]
        ELSE IF \E needle \in {"model", "quota", "not found", "invalid"} :
                   Includes(error.message, needle)
        THEN [status |-> 500, code |-> "AI_SERVICE_ERROR"]
        ELSE IF Includes(error.message, "network") \/ Includes(error.message, "fetch")
        THEN [status |-> 503, code |-> "NETWORK_ERROR"]
        ELSE [status |-> 500, code |-> "PARSE_FAILED"]

(***************************************************************************)
(* The extraction route: one request from its arrival to its response.     *)
(***************************************************************************)
ApiKeys == {"missing", "badPrefix", "badLength", "ok"}

\* the texts of the requests: raw inputs of at most 2 runs
RequestTexts == {s \in RawInputs : Len(s) <= 2}

\* lines 345-358: keywords of the rule table of the prompt, one for each of
\* high ("빨리"), low ("언젠가"), work ("회의") and learning ("공부"), and
\* their numbers of characters
Keywords == {"quickly", "someday", "meeting", "study"}

KeywordLen(word) == IF word = "someday" THEN 3 ELSE 2

\* lines 345-351: the priority that the rule table assigns to a text with
\* these keywords
rulePriority(words) ==
    IF "quickly" \in words THEN "high"
    ELSE IF "someday" \in words THEN "low"
    ELSE "medium"

\* lines 353-357: the category that the rule table assigns
ruleCategory(words) ==
    IF "meeting" \in words THEN "work"
    ELSE IF "study" \in words THEN "learning"
    ELSE "other"

\* a keyword is a word of letters: the text has a run of letters that long
CanContain(s, word) ==
    \E i \in 1..Len(s) : s[i].c = "L" /\ s[i].n >= KeywordLen(word)

\* the request bodies: not JSON, without the field, with a field that is no
\* string, and with a text, which may hold a keyword of the rule table
RequestBodies ==
    {[k |-> "notJson"], [k |-> "json", input |-> NULL], [k |-> "json", input |-> [k |-> "number"]]}
    \cup {body \in {[k |-> "json", input |-> Str(s), keywords |-> words] :
                         s \in RequestTexts,
                         words \in {{}} \cup {{word} : word \in Keywords}} :
              \A word \in body.keywords : CanContain(body.input.s, word)}

ModelReplies ==
    {[title |-> t, due_date |-> dd, due_time |-> dt, priority |-> p,
      category |-> c, description |-> NULL] :
        t \in {<<>>, PlainTitle}, dd \in {EmptyString, [k |-> "text"], DateString(ReferenceDay)},
        dt \in {NULL, [k |-> "time", h |-> 15, m |-> 0]},
        p \in {"high", "medium"}, c \in {"work", "other"}}

NowDays == ReferenceDay..(ReferenceDay + 6)

ExtractRespond(response) ==
    /\ exPc' = "done"
    /\ exResp' = response

inputRejected_Never(validation) == FALSE

\* line 239
inputRejected(validation) == ~validation.isValid

\* lines 145-403: from the arrival of the request to the call of the model
ExtractReceive ==
    /\ exPc = "idle"
    /\ \E apiKey \in ApiKeys, body \in RequestBodies, nowDay \in NowDays :
          /\ exReq' = [apiKey |-> apiKey, body |-> body]
          /\ IF apiKey = "missing"
             THEN /\ ExtractRespond([status |-> 500, error |-> "ApiKeyMissing"])
                  /\ UNCHANGED <<exNow, exValidation, exPrompt, exModelCalls, exCall>>
             ELSE IF apiKey = "badPrefix"
             THEN /\ ExtractRespond([status |-> 500, error |-> "ApiKeyFormat"])
                  /\ UNCHANGED <<exNow, exValidation, exPrompt, exModelCalls, exCall>>
             ELSE IF body.k = "notJson"
             THEN /\ ExtractRespond([status |-> 400, error |-> "BodyNotJson"])
                  /\ UNCHANGED <<exNow, exValidation, exPrompt, exModelCalls, exCall>>
             ELSE IF Falsy(body.input) \/ body.input.k # "str"
             THEN /\ ExtractRespond([status |-> 400, error |-> "InputRequired"])
                  /\ UNCHANGED <<exNow, exValidation, exPrompt, exModelCalls, exCall>>
             ELSE LET preprocessedInput == preprocessInput(body.input.s)
                      validation == validateInput(preprocessedInput)
                  IN  /\ exValidation' = validation
                      /\ IF inputRejected(validation)
                         THEN /\ ExtractRespond([status |-> 400, error |-> validation.error])
                              /\ UNCHANGED <<exNow, exPrompt, exModelCalls, exCall>>
                         ELSE /\ exNow' = [day |-> nowDay]
                              /\ IF apiKey = "badLength"
                                 THEN /\ ExtractRespond([status |-> 500, error |-> "ApiKeyLength"])
                                      /\ UNCHANGED <<exPrompt, exModelCalls, exCall>>
                                 ELSE /\ exPrompt' = [context |-> temporalContext(nowDay),
                                                      input |-> preprocessedInput]
                                      /\ exModelCalls' = exModelCalls + 1
                                      /\ exCall' = Pending
                                      /\ exPc' = "awaitModel"
                                      /\ UNCHANGED exResp

\* lines 404 and 429-432: the model answers with an object of the schema;
\* the clock of the post-processor may have passed midnight since line 247
ExtractModelReply ==
    /\ exPc = "awaitModel"
    /\ \E parsedTodo \in ModelReplies, clockDay \in {exNow.day, exNow.day + 1} :
          /\ exCall' = Replied(parsedTodo)
          /\ ExtractRespond([status |-> 200,
                             data |-> postprocessTodoData(parsedTodo, exPrompt.input,
                                                          exPrompt.context.currentDate,
                                                          clockDay)])
    /\ UNCHANGED <<exReq, exNow, exValidation, exPrompt, exModelCalls>>

\* lines 303-403: the call is made without a timeout or an abort signal, so
\* the handler has no step of its own while the call is pending: time passes
\* and the call is still pending
ExtractModelLate ==
    /\ exPc = "awaitModel"
    /\ exCall = Pending
    /\ exCall' = Late
    /\ UNCHANGED <<exPc, exReq, exNow, exValidation, exPrompt, exModelCalls, exResp>>

ExtractModelError_Retry ==
    /\ exPc = "awaitModel"
    /\ exModelCalls < 3
    /\ exModelCalls' = exModelCalls + 1
    /\ exCall' = Pending
    /\ UNCHANGED <<exPc, exReq, exNow, exValidation, exPrompt, exResp>>

\* lines 405-427 and 433-560: the model call throws
ExtractModelError ==
    /\ exPc = "awaitModel"
    /\ \E aiError \in ModelErrors :
          /\ exCall' = Threw(aiError)
          /\ IF isRateLimitError(aiError)
             THEN ExtractRespond([status |-> 429, code |-> "RATE_LIMIT_EXCEEDED"])
             ELSE ExtractRespond(extractErrorResponse(aiError))
    /\ UNCHANGED <<exReq, exNow, exValidation, exPrompt, exModelCalls>>

(***************************************************************************)
(* The summary route.  An instant is a number of hours since 1970-01-01    *)
(* 00:00 in the server's time zone.  The due_date column of a task is NULL *)
(* or [k |-> "instant", at |-> hours], the created_at column is never null *)
(* and is kept as its number of hours; both are timestamps of the store,   *)
(* so parseISO of them is an instant.                                      *)
(***************************************************************************)
HoursPerDay == 24

At(hours) == [k |-> "instant", at |-> hours]

DayOf(instant) == instant \div HoursPerDay

\* Math.ceil(a / b) for b > 0
CeilDiv(a, b) == -((-a) \div b)

\* date-fns startOfWeek(date, { weekStartsOn: 1 }), as a day number
startOfWeekDay(day) == day - ((getDay(day) + 6) % 7)

periodInterval_FromPrevious(period, now) ==
    IF period = "today"
    THEN [start |-> (DayOf(now) - 1) * HoursPerDay,
          end |-> DayOf(now) * HoursPerDay + HoursPerDay - 1]
    ELSE [start |-> (startOfWeekDay(DayOf(now)) - 7) * HoursPerDay,
          end |-> (startOfWeekDay(DayOf(now)) + 7) * HoursPerDay - 1]

\* lines 108-121: the closed interval [startDate, endDate] of the period;
\* endOfDay and endOfWeek are the last instant of the day, so the last hour
\* of the interval is within it
periodInterval(period, now) ==
    IF period = "today"
    THEN [start |-> DayOf(now) * HoursPerDay,
          end |-> DayOf(now) * HoursPerDay + HoursPerDay - 1]
    ELSE [start |-> startOfWeekDay(DayOf(now)) * HoursPerDay,
          end |-> (startOfWeekDay(DayOf(now)) + 7) * HoursPerDay - 1]

\* lines 112-113 and 119-120: the period before it
previousInterval(period, now) ==
    IF period = "today"
    THEN periodInterval(period, now - HoursPerDay)
    ELSE periodInterval(period, now - 7 * HoursPerDay)

\* date-fns isWithinInterval
isWithinInterval(instant, interval) ==
    interval.start <= instant /\ instant <= interval.end

filterTodosByPeriod_EitherInstant(todoList, interval) ==
    {todo \in todoList :
        \/ todo.due_date # NULL /\ isWithinInterval(todo.due_date.at, interval)
        \/ isWithinInterval(todo.created_at, interval)}

\* lines 154-182
filterTodosByPeriod(todoList, interval) ==
    {todo \in todoList :
        IF todo.due_date # NULL
        THEN isWithinInterval(todo.due_date.at, interval)
        ELSE isWithinInterval(todo.created_at, interval)}

isUrgent_Floor(todo, now) ==
    IF todo.completed THEN FALSE
    ELSE IF todo.priority = "high" THEN TRUE
    ELSE IF todo.due_date # NULL
         THEN (todo.due_date.at - now) \div HoursPerDay <= 1
         ELSE FALSE

isUrgent_UpcomingOnly(todo, now) ==
    IF todo.completed THEN FALSE
    ELSE IF todo.priority = "high" THEN TRUE
    ELSE IF todo.due_date # NULL
         THEN LET daysUntilDue == CeilDiv(todo.due_date.at - now, HoursPerDay)
              IN  daysUntilDue >= 0 /\ daysUntilDue <= 1
         ELSE FALSE

\* lines 397-410
isUrgent(todo, now) ==
    IF todo.completed THEN FALSE
    ELSE IF todo.priority = "high" THEN TRUE
    ELSE IF todo.due_date # NULL
         THEN LET daysUntilDue == CeilDiv(todo.due_date.at - now, HoursPerDay)
              IN  daysUntilDue <= 1
         ELSE FALSE

noTodosInPeriod_Never(filteredTodos) == FALSE

\* line 190
noTodosInPeriod(filteredTodos) == Cardinality(filteredTodos) = 0

\* lines 191-198
emptySummary(period) ==
    [status |-> 200,
     summary |-> IF period = "today" THEN "NoTodosToday" ELSE "NoTodosThisWeek",
     urgentTasks |-> <<>>,
     insights |-> <<>>,
     recommendations |-> <<>>]

\* the number num / den; a division by zero is the ratio of den = 0
Ratio(num, den) == [num |-> num, den |-> den]

\* line 210: the difference of two numbers
Minus(a, b) == Ratio(a.num * b.den - b.num * a.den, a.den * b.den)

completionRate_Unguarded(completedTodos, totalTodos) ==
    Ratio(completedTodos * 100, totalTodos)

\* lines 204 and 209
completionRate(completedTodos, totalTodos) ==
    IF totalTodos > 0 THEN Ratio(completedTodos * 100, totalTodos) ELSE Ratio(0, 1)

\* date-fns isAfter and isBefore on two instants in hours
isAfter(date, dateToCompare) == date > dateToCompare

isBeforeInstant(date, dateToCompare) == date < dateToCompare

isOverdue_OrNow(todo, now) ==
    IF todo.completed THEN FALSE
    ELSE ~isAfter(todo.due_date.at, now)

\* lines 265-273: a task with a due date that is past due and not completed
isOverdue(todo, now) ==
    IF todo.completed THEN FALSE
    ELSE isBeforeInstant(todo.due_date.at, now)

isOnTime_Strict(todo, now) ==
    IF ~todo.completed THEN FALSE
    ELSE isBeforeInstant(todo.due_date.at, now)

\* lines 274-282: a completed task with a due date counts as on time
isOnTime(todo, now) ==
    IF ~todo.completed THEN FALSE
    ELSE ~isAfter(todo.due_date.at, now) \/ isBeforeInstant(todo.due_date.at, now)

\* lines 288-293: the overdue tasks with their days overdue
postponedTasks(overdueTodos, now) ==
    {[todo |-> t, daysOverdue |-> CeilDiv(now - t.due_date.at, HoursPerDay)] :
        t \in overdueTodos}

\* lines 283-285
deadlineComplianceRate(onTimeTodos, todosWithDueDate) ==
    IF Cardinality(todosWithDueDate) > 0
    THEN Ratio(Cardinality(onTimeTodos) * 100, Cardinality(todosWithDueDate))
    ELSE Ratio(0, 1)

\* Date.prototype.getHours of an instant
getHours(instant) == instant % HoursPerDay

\* lines 325-330: the four time slots, by the hours of their labels
TimeSlots == {"morning", "afternoon", "evening", "night"}

\* lines 338-341
timeSlotOf(hour) ==
    IF hour >= 9 /\ hour < 12 THEN "morning"
    ELSE IF hour >= 12 /\ hour < 18 THEN "afternoon"
    ELSE IF hour >= 18 /\ hour < 21 THEN "evening"
    ELSE "night"

\* lines 324-350: the tasks with a due date counted by the slot of its hour
timeSlots(filteredTodos) ==
    [slot \in TimeSlots |->
        LET counted == {t \in filteredTodos :
                           t.due_date # NULL /\ timeSlotOf(getHours(t.due_date.at)) = slot}
        IN  [total |-> Cardinality(counted),
             completed |-> Cardinality({t \in counted : t.completed})]]

\* line 306: the names of the weekdays by getDay, Sunday first
weekdays ==
    <<"Sunday", "Monday", "Tuesday", "Wednesday", "Thursday", "Friday", "Saturday">>

\* lines 297-303: the keys of weekdayProductivity in the order of insertion
WeekdayOrder ==
    <<"Monday", "Tuesday", "Wednesday", "Thursday", "Friday", "Saturday", "Sunday">>

\* lines 325-330: the keys of timeSlots in the order of insertion
SlotOrder == <<"morning", "afternoon", "evening", "night">>

\* lines 296-321: the tasks counted by the weekday of their creation
weekdayProductivity(filteredTodos) ==
    [weekday \in {WeekdayOrder[i] : i \in 1..Len(WeekdayOrder)} |->
        LET counted == {t \in filteredTodos :
                           weekdays[getDay(DayOf(t.created_at)) + 1] = weekday}
        IN  [total |-> Cardinality(counted),
             completed |-> Cardinality({t \in counted : t.completed})]]

\* lines 356-358: rateA > rateB, for buckets that are not empty
HigherRate(a, b) == a.completed * b.total > b.completed * a.total

mostProductive_Unfiltered(order, buckets) ==
    LET rate(key) == IF buckets[key].total > 0 THEN buckets[key]
                     ELSE [total |-> 1, completed |-> 0]
    IN  order[CHOOSE i \in 1..Len(order) :
                 /\ \A j \in 1..Len(order) : ~HigherRate(rate(order[j]), rate(order[i]))
                 /\ \A j \in 1..(i - 1) : HigherRate(rate(order[i]), rate(order[j]))]

\* lines 353-368: the entries with a task, sorted by falling rate, and the
\* key of the first of them; the sort is stable, so among the entries of the
\* highest rate the first one in the order of insertion comes first
mostProductive(order, buckets) ==
    LET entries == SelectSeq(order, LAMBDA key : buckets[key].total > 0)
    IN  IF entries = <<>> THEN Undefined
        ELSE entries[CHOOSE i \in 1..Len(entries) :
                 /\ \A j \in 1..Len(entries) :
                        ~HigherRate(buckets[entries[j]], buckets[entries[i]])
                 /\ \A j \in 1..(i - 1) :
                        HigherRate(buckets[entries[i]], buckets[entries[j]])]

\* lines 201-210, 263-285, 295-368 and 395-411: the statistics written into
\* the prompt
summaryStatistics(filteredTodos, previousTodos, now) ==
    LET totalTodos == Cardinality(filteredTodos)
        completedTodos == Cardinality({t \in filteredTodos : t.completed})
        previousTotalTodos == Cardinality(previousTodos)
        previousCompletedTodos == Cardinality({t \in previousTodos : t.completed})
        todosWithDueDate == {t \in filteredTodos : t.due_date # NULL}
        onTimeTodos == {t \in todosWithDueDate : isOnTime(t, now)}
        overdueTodos == {t \in todosWithDueDate : isOverdue(t, now)}
    IN  [totalTodos |-> totalTodos,
         completedTodos |-> completedTodos,
         completionRate |-> completionRate(completedTodos, totalTodos),
         previousTotalTodos |-> previousTotalTodos,
         previousCompletedTodos |-> previousCompletedTodos,
         previousCompletionRate |-> completionRate(previousCompletedTodos,
                                                   previousTotalTodos),
         completionRateChange |->
             Minus(completionRate(completedTodos, totalTodos),
                   completionRate(previousCompletedTodos, previousTotalTodos)),
         todosWithDueDate |-> todosWithDueDate,
         overdueTodos |-> overdueTodos,
         postponedTasks |-> postponedTasks(overdueTodos, now),
         onTimeTodos |-> onTimeTodos,
         deadlineComplianceRate |-> deadlineComplianceRate(onTimeTodos, todosWithDueDate),
         weekdayProductivity |-> weekdayProductivity(filteredTodos),
         timeSlots |-> timeSlots(filteredTodos),
         mostProductiveWeekday |->
             mostProductive(WeekdayOrder, weekdayProductivity(filteredTodos)),
         mostProductiveTimeSlot |-> mostProductive(SlotOrder, timeSlots(filteredTodos)),
         urgentTasks |-> {t \in filteredTodos : isUrgent(t, now)}]

\* lines 570-612: the response of the catch block
summaryErrorResponse(error) ==
    IF \/ Includes(error.message, "429")
       \/ Includes(error.message, "rate limit")
       \/ Includes(error.message, "quota exceeded")
       \/ error.statusCode = 429
    THEN [status |-> 429, code |-> "RATE_LIMIT_EXCEEDED"]
    ELSE IF \E needle \in {"api key", "authentication", "401", "403"} :
               Includes(error.message, needle)
    THEN [status |-> 500, code |-> "AUTH_ERROR"]
    ELSE [status |-> 500, code |-> "SUMMARY_FAILED"]

(***************************************************************************)
(* The record store and the requests of the summary route.                 *)
(***************************************************************************)
MaxTodos == 2
MaxBusyTodos == 8

Users == {"u1", "u2"}

\* the day of the requests: Wednesday 1970-01-14; now is 10:00 or 18:00
Wednesday == 13
NowInstants == {Wednesday * HoursPerDay + 10, Wednesday * HoursPerDay + 18}

\* Tuesday 09:00, Wednesday 18:00 and 22:00, Thursday 06:00, 18:00 and 19:00,
\* Friday 14:00, and Monday of the next week 09:00
DueInstants ==
    {(Wednesday - 1) * HoursPerDay + 9, Wednesday * HoursPerDay + 18,
     (Wednesday + 2) * HoursPerDay + 14,
     Wednesday * HoursPerDay + 22,
     (Wednesday + 1) * HoursPerDay + 6, (Wednesday + 1) * HoursPerDay + 18,
     (Wednesday + 1) * HoursPerDay + 19, (Wednesday + 5) * HoursPerDay + 9}

\* Wednesday 08:00, Tuesday 08:00 and Sunday of the week before 08:00
CreatedInstants ==
    {Wednesday * HoursPerDay + 8, (Wednesday - 1) * HoursPerDay + 8,
     (Wednesday - 3) * HoursPerDay + 8}

TodoRows ==
    {[user_id |-> "u1", completed |-> c, priority |-> p, due_date |-> At(d),
      created_at |-> (Wednesday - 1) * HoursPerDay + 8] :
        c \in BOOLEAN, p \in {"high", "medium"}, d \in DueInstants}
    \cup {[user_id |-> "u1", completed |-> c, priority |-> p, due_date |-> NULL,
           created_at |-> cr] :
        c \in BOOLEAN, p \in {"high", "medium"}, cr \in CreatedInstants}
    \cup {[user_id |-> "u2", completed |-> FALSE, priority |-> "high", due_date |-> NULL,
           created_at |-> Wednesday * HoursPerDay + 8]}

\* medium tasks of the user u1 that are due from Tuesday 09:00 to Thursday
\* 18:00, five of them completed
BusyRows ==
    {[user_id |-> "u1", completed |-> c, priority |-> "medium", due_date |-> At(d),
      created_at |-> (Wednesday - 1) * HoursPerDay + 8] :
        c \in BOOLEAN, d \in {d \in DueInstants : d <= (Wednesday + 1) * HoursPerDay + 18}}

\* the stores of a busy week: MaxBusyTodos rows, or one less
BusyStores ==
    {rows \in SUBSET BusyRows : Cardinality(rows) \in {MaxBusyTodos - 1, MaxBusyTodos}}

\* the stores of at most MaxTodos rows, and the stores of a busy week
Stores ==
    {{slots[i] : i \in 1..MaxTodos} \ {NULL} : slots \in [1..MaxTodos -> TodoRows \cup {NULL}]}
    \cup BusyStores

SummaryReplies ==
    {[summary |-> "synopsis", urgentTasks |-> u, insights |-> <<"insight">>,
      recommendations |-> <<"recommendation">>] : u \in {<<>>, <<"a title">>}}

\* a field of a reply of the provider: its JSON type and its value
Field(type, value) == [k |-> type, v |-> value]

Missing == Field("missing", <<>>)

\* the reply of the provider for an object of the schema
AsRawSummary(summary) ==
    [summary |-> Field("string", summary.summary),
     urgentTasks |-> Field("strings", summary.urgentTasks),
     insights |-> Field("strings", summary.insights),
     recommendations |-> Field("strings", summary.recommendations)]

\* the replies of the provider: of the schema, without recommendations,
\* with a string in place of the list of urgent tasks, without summary
RawSummaryReplies ==
    {AsRawSummary(summary) : summary \in SummaryReplies}
    \cup {[AsRawSummary(summary) EXCEPT !.recommendations = Missing] :
              summary \in SummaryReplies}
    \cup {[AsRawSummary(summary) EXCEPT !.urgentTasks = Field("string", "a title")] :
              summary \in SummaryReplies}
    \cup {[AsRawSummary(summary) EXCEPT !.summary = Missing] :
              summary \in SummaryReplies}

summarySchema_SummaryOnly(raw) == raw.summary.k = "string"

\* lines 11-16: the validation of the reply by generateObject
summarySchema(raw) ==
    /\ raw.summary.k = "string"
    /\ raw.urgentTasks.k = "strings"
    /\ raw.insights.k = "strings"
    /\ raw.recommendations.k = "strings"

\* the error of generateObject for a reply that is not of the schema
NoObjectGeneratedError == [message |-> {"No object generated"}, statusCode |-> 0]

SummaryRespond(response) ==
    /\ smPc' = "done"
    /\ smResp' = response

\* lines 22-90: from the arrival of the request to the lookup of the session
SummaryReceive ==
    /\ smPc = "idle"
    /\ \E apiKey \in {"bad", "ok"}, body \in
              {[k |-> "notJson"]} \cup
              {[k |-> "json", period |-> p, userId |-> u] :
                  p \in {"today", "week", "month", Undefined},
                  u \in Users \cup {Undefined}},
          caller \in Users \cup {Undefined} :
          /\ smReq' = [apiKey |-> apiKey, body |-> body, caller |-> caller]
          /\ IF apiKey = "bad"
             THEN SummaryRespond([status |-> 500, error |-> "ApiKey"])
             ELSE IF body.k = "notJson"
             THEN SummaryRespond([status |-> 400, error |-> "BodyNotJson"])
             ELSE IF body.period \notin {"today", "week"}
             THEN SummaryRespond([status |-> 400, error |-> "PeriodInvalid"])
             ELSE IF body.userId = Undefined
             THEN SummaryRespond([status |-> 400, error |-> "UserIdRequired"])
             ELSE smPc' = "awaitAuth" /\ UNCHANGED smResp
    /\ UNCHANGED <<store, smNow, smTodos, smPrompt, smModelCalls, smCall>>

SummaryAuthReply_AnyUser ==
    /\ smPc = "awaitAuth"
    /\ \E authError \in BOOLEAN, now \in NowInstants :
          LET user == IF authError THEN Undefined ELSE smReq.caller
          IN  IF authError \/ user = Undefined
              THEN /\ SummaryRespond([status |-> 401, error |-> "AuthRequired"])
                   /\ UNCHANGED smNow
              ELSE /\ smNow' = At(now)
                   /\ smPc' = "awaitStore"
                   /\ UNCHANGED smResp
    /\ UNCHANGED <<store, smReq, smTodos, smPrompt, smModelCalls, smCall>>

\* lines 90-128: getUser answers with an error or with the user of the
\* caller's session (none when the caller has no session); the request is
\* refused unless that user is the one named in the body, otherwise the
\* clock is read and the tasks of the user are asked of the store
SummaryAuthReply ==
    /\ smPc = "awaitAuth"
    /\ \E authError \in BOOLEAN, now \in NowInstants :
          LET user == IF authError THEN Undefined ELSE smReq.caller
          IN  IF authError \/ user = Undefined \/ user # smReq.body.userId
              THEN /\ SummaryRespond([status |-> 401, error |-> "AuthRequired"])
                   /\ UNCHANGED smNow
              ELSE /\ smNow' = At(now)
                   /\ smPc' = "awaitStore"
                   /\ UNCHANGED smResp
    /\ UNCHANGED <<store, smReq, smTodos, smPrompt, smModelCalls, smCall>>

SummaryStoreError_Clears ==
    /\ smPc = "awaitStore"
    /\ smTodos' = [k |-> "error"]
    /\ store' = {}
    /\ SummaryRespond([status |-> 500, error |-> "TodosQuery"])
    /\ UNCHANGED <<smReq, smNow, smPrompt, smModelCalls, smCall>>

SummaryStoreError_Ignored ==
    /\ smPc = "awaitStore"
    /\ smTodos' = [k |-> "error"]
    /\ SummaryRespond(emptySummary(smReq.body.period))
    /\ UNCHANGED <<store, smReq, smNow, smPrompt, smModelCalls, smCall>>

\* lines 124-136: the read of the store fails
SummaryStoreError ==
    /\ smPc = "awaitStore"
    /\ smTodos' = [k |-> "error"]
    /\ SummaryRespond([status |-> 500, error |-> "TodosQuery"])
    /\ UNCHANGED <<store, smReq, smNow, smPrompt, smModelCalls, smCall>>

\* lines 151-562: the rows of the user arrive; they are filtered by period,
\* the empty period is answered at once, otherwise the statistics are
\* computed and the model is called
SummaryStoreReply ==
    /\ smPc = "awaitStore"
    /\ LET todoList == {row \in store : row.user_id = smReq.body.userId}
           period == smReq.body.period
           now == smNow.at
           filteredTodos == filterTodosByPeriod(todoList, periodInterval(period, now))
           previousTodos == filterTodosByPeriod(todoList, previousInterval(period, now))
       IN  /\ smTodos' = [k |-> "rows", rows |-> todoList]
           /\ IF noTodosInPeriod(filteredTodos)
              THEN /\ SummaryRespond(emptySummary(period))
                   /\ UNCHANGED <<smPrompt, smModelCalls, smCall>>
              ELSE /\ smPrompt' = [todosData |-> filteredTodos,
                                   statistics |-> summaryStatistics(filteredTodos,
                                                                    previousTodos, now)]
                   /\ smModelCalls' = smModelCalls + 1
                   /\ smCall' = Pending
                   /\ smPc' = "awaitModel"
                   /\ UNCHANGED smResp
    /\ UNCHANGED <<store, smReq, smNow>>

\* lines 432-434 and 564-613: the provider answers; generateObject returns
\* the object when the reply is of the schema and throws otherwise
SummaryModelReply ==
    /\ smPc = "awaitModel"
    /\ \E raw \in RawSummaryReplies :
          /\ smCall' = Replied(raw)
          /\ IF summarySchema(raw)
             THEN SummaryRespond([status |-> 200, summary |-> raw.summary.v,
                                  urgentTasks |-> raw.urgentTasks.v,
                                  insights |-> raw.insights.v,
                                  recommendations |-> raw.recommendations.v])
             ELSE SummaryRespond(summaryErrorResponse(NoObjectGeneratedError))
    /\ UNCHANGED <<store, smReq, smNow, smTodos, smPrompt, smModelCalls>>

\* lines 432-562: the call is made without a timeout or an abort signal;
\* time passes and the call is still pending
SummaryModelLate ==
    /\ smPc = "awaitModel"
    /\ smCall = Pending
    /\ smCall' = Late
    /\ UNCHANGED <<store, smPc, smReq, smNow, smTodos, smPrompt, smModelCalls, smResp>>

\* lines 565-613: the model call throws
SummaryModelError ==
    /\ smPc = "awaitModel"
    /\ \E error \in ModelErrors :
          /\ smCall' = Threw(error)
          /\ SummaryRespond(summaryErrorResponse(error))
    /\ UNCHANGED <<store, smReq, smNow, smTodos, smPrompt, smModelCalls>>

(***************************************************************************)
(* The middleware: one page request from its arrival to its response.      *)
(* The request carries the path and the session cookie of the browser      *)
(* ("none" when there is none, else the user it was issued to); the        *)
(* environment says which of the Supabase variables are set.               *)
(***************************************************************************)
publicPaths == {"/login", "/signup"}

protectedPaths == {"/dashboard"}

\* the paths of the requests that the matcher hands to the middleware
Paths == {"/", "/login", "/signup", "/dashboard", "/dashboard/stats", "/about"}

\* String.prototype.startsWith on the paths of the model
StartsWith(pathname, prefix) ==
    \/ pathname = prefix
    \/ prefix = "/dashboard" /\ pathname = "/dashboard/stats"

Environments == [url : BOOLEAN, publishable : BOOLEAN, anon : BOOLEAN]

Cookies == {"none", "u1", "u2"}

\* the outcomes of auth.getSession for a cookie: no session, an error, an
\* exception, or, for the cookie of a user, the session of the user, with
\* or without refreshed cookies
SessionOutcomes(cookie) ==
    {[k |-> "none"], [k |-> "error"], [k |-> "throws"]}
    \cup IF cookie = "none" THEN {}
         ELSE {[k |-> "session", user |-> cookie, refreshed |-> r] : r \in BOOLEAN}

Redirect(to, redirect) == [k |-> "redirect", to |-> to, redirect |-> redirect]

MiddlewareRespond(response) ==
    /\ mwPc' = "done"
    /\ mwResp' = response

\* lines 137-145: a variable of the environment is missing
environmentMissing(env) == ~env.url \/ ~(env.publishable \/ env.anon)

\* lines 192-222: the response for a path, once the session is known
middlewareResponse(pathname, isAuthenticated, supabaseResponse) ==
    IF pathname = "/"
    THEN IF isAuthenticated THEN supabaseResponse ELSE Redirect("/login", Undefined)
    ELSE IF pathname \in publicPaths
    THEN IF isAuthenticated THEN Redirect("/", Undefined) ELSE supabaseResponse
    ELSE IF (\E path \in protectedPaths : StartsWith(pathname, path)) /\ ~isAuthenticated
    THEN Redirect("/login", pathname)
    ELSE supabaseResponse

\* lines 127-150: the request arrives; without the variables of the
\* environment it is passed on at once, otherwise the session is asked for
MiddlewareReceive ==
    /\ mwPc = "idle"
    /\ \E pathname \in Paths, cookie \in Cookies, env \in Environments :
          /\ mwReq' = [pathname |-> pathname, cookie |-> cookie, env |-> env]
          /\ IF environmentMissing(env)
             THEN MiddlewareRespond([k |-> "next", cookies |-> FALSE])
             ELSE mwPc' = "awaitSession" /\ UNCHANGED mwResp
    /\ UNCHANGED mwSession

\* lines 152-222: getSession has answered; an error and an exception count
\* as no session
MiddlewareSessionReply ==
    /\ mwPc = "awaitSession"
    /\ \E outcome \in SessionOutcomes(mwReq.cookie) :
          LET isAuthenticated == outcome.k = "session"
              supabaseResponse == [k |-> "next",
                                   cookies |-> isAuthenticated /\ outcome.refreshed]
          IN  /\ mwSession' = outcome
              /\ MiddlewareRespond(middlewareResponse(mwReq.pathname, isAuthenticated,
                                                      supabaseResponse))
    /\ UNCHANGED mwReq

(***************************************************************************)
(* The dashboard page (src/unnamed/part_008): the displayed list `todos`,  *)
(* the store behind it and the handlers of the page.  A handler keeps the  *)
(* `todos`, `user`, `editingTodo` and `deleteTodoId` of the render it was  *)
(* created in; its steps are cut at its awaits, and dbCalls holds where    *)
(* each handler stands.  A write to the store and the arrival of its reply *)
(* are one step; a read of the store and the arrival of its rows are two.  *)
(* The order of the list and the timestamps of the rows play no part in    *)
(* the handlers and are left out, and so is errorMessage, which the        *)
(* handlers write and never read.                                          *)
(***************************************************************************)
\* the number of tasks added on the page; the n-th takes the id n
MaxTasks == 1

\* the number of handlers that run at the same time
MaxInFlight == 2

\* a handler that is not running
Idle == [pc |-> "idle"]

\* a request to the store is served, refused for an expired JWT, refused
\* for another reason, or ends in an exception
StoreOutcomes == {"ok", "jwt", "error", "threw"}

\* the handlers that have been started and have not returned
InFlight == Cardinality({handler \in DOMAIN dbCalls : dbCalls[handler] # Idle})

\* the form is disabled while isLoadingTodos is set, and out of reach while
\* the delete dialog is open
formEnabled == ~dbLoading /\ dbDeleteTodoId = 0

\* every card is given isLoading = isLoadingTodos, and is out of reach while
\* the delete dialog is open
cardsEnabled == ~dbLoading /\ dbDeleteTodoId = 0

\* lines 68-72: the rows of the user are read for the fetchTodos a handler
\* (or the effect of lines 106-110) is waiting for
FetchRead ==
    /\ \E handler \in DOMAIN dbCalls :
          /\ dbCalls[handler].pc = "awaitFetch"
          /\ dbCalls' = [dbCalls EXCEPT ![handler] =
                [pc |-> "fetchReply",
                 data |-> {t \in dbStore : t.user_id = dbCalls[handler].user}]]
    /\ UNCHANGED <<dbUser, dbStore, dbNextId, dbTodos, dbEditingTodo, dbDeleteTodoId,
                   dbLoading, dbSignOutTimer>>

\* lines 74-100: the rows arrive and replace the list, or the read fails;
\* isLoadingTodos is cleared and the handler returns
FetchReply ==
    /\ \E handler \in DOMAIN dbCalls :
          /\ \/ /\ dbCalls[handler].pc = "fetchReply"
                /\ dbTodos' = dbCalls[handler].data
                /\ UNCHANGED dbSignOutTimer
             \/ /\ dbCalls[handler].pc = "awaitFetch"
                /\ \E outcome \in StoreOutcomes \ {"ok"} :
                      dbSignOutTimer' = (dbSignOutTimer \/ outcome = "jwt")
                /\ UNCHANGED dbTodos
          /\ dbCalls' = [dbCalls EXCEPT ![handler] = Idle]
    /\ dbLoading' = FALSE
    /\ UNCHANGED <<dbUser, dbStore, dbNextId, dbEditingTodo, dbDeleteTodoId>>

\* lines 178-203: the form is submitted with no task being edited
handleAddTodo ==
    /\ dbCalls.add = Idle
    /\ formEnabled
    /\ dbEditingTodo = NULL
    /\ dbNextId <= MaxTasks
    /\ InFlight < MaxInFlight
    /\ \E title \in {"a"} :
          IF dbUser = Undefined
          THEN UNCHANGED <<dbLoading, dbCalls>>
          ELSE /\ dbLoading' = TRUE
               /\ dbCalls' = [dbCalls EXCEPT !.add =
                                 [pc |-> "awaitStore", user |-> dbUser,
                                  todos |-> dbTodos, title |-> title]]
    /\ UNCHANGED <<dbUser, dbStore, dbNextId, dbTodos, dbEditingTodo, dbDeleteTodoId,
                   dbSignOutTimer>>

\* lines 205-238: the insert is answered
AddStoreReply ==
    /\ dbCalls.add.pc = "awaitStore"
    /\ \E outcome \in StoreOutcomes :
          IF outcome = "ok"
          THEN LET newTodo == [id |-> dbNextId, user_id |-> dbCalls.add.user,
                               title |-> dbCalls.add.title, completed |-> FALSE]
               IN  /\ dbStore' = dbStore \cup {newTodo}
                   /\ dbNextId' = dbNextId + 1
                   /\ dbTodos' = {newTodo} \cup dbCalls.add.todos
                   /\ dbEditingTodo' = NULL
                   /\ dbLoading' = TRUE
                   /\ dbCalls' = [dbCalls EXCEPT !.add =
                                     [pc |-> "awaitFetch", user |-> dbCalls.add.user]]
                   /\ UNCHANGED dbSignOutTimer
          ELSE /\ dbSignOutTimer' = (dbSignOutTimer \/ outcome = "jwt")
               /\ dbLoading' = FALSE
               /\ dbCalls' = [dbCalls EXCEPT !.add = Idle]
               /\ UNCHANGED <<dbStore, dbNextId, dbTodos, dbEditingTodo>>
    /\ UNCHANGED <<dbUser, dbDeleteTodoId>>

\* lines 244-246: the edit button of a card
handleEditTodo ==
    /\ cardsEnabled
    /\ \E todo \in dbTodos : dbEditingTodo' = todo
    /\ UNCHANGED <<dbUser, dbStore, dbNextId, dbTodos, dbDeleteTodoId, dbLoading,
                   dbSignOutTimer, dbCalls>>

\* lines 252-284: the form is submitted while a task is being edited
handleUpdateTodo ==
    /\ dbCalls.update = Idle
    /\ formEnabled
    /\ dbEditingTodo # NULL
    /\ InFlight < MaxInFlight
    /\ \E title \in {"b"} :
          IF dbUser = Undefined
          THEN UNCHANGED <<dbLoading, dbCalls>>
          ELSE IF dbEditingTodo.user_id # dbUser
          THEN UNCHANGED <<dbLoading, dbCalls>>
          ELSE /\ dbLoading' = TRUE
               /\ dbCalls' = [dbCalls EXCEPT !.update =
                                 [pc |-> "awaitStore", user |-> dbUser,
                                  todos |-> dbTodos, editingTodo |-> dbEditingTodo,
                                  title |-> title]]
    /\ UNCHANGED <<dbUser, dbStore, dbNextId, dbTodos, dbEditingTodo, dbDeleteTodoId,
                   dbSignOutTimer>>

\* lines 286-319: the update is answered; .single() turns a task that is no
\* longer in the store into an error
UpdateStoreReply ==
    /\ dbCalls.update.pc = "awaitStore"
    /\ \E outcome \in StoreOutcomes :
          LET call == dbCalls.update
              found == {t \in dbStore : t.id = call.editingTodo.id /\ t.user_id = call.user}
          IN  IF outcome = "ok" /\ found # {}
              THEN LET row == CHOOSE t \in found : TRUE
                       updatedTodo == [row EXCEPT !.title = call.title]
                   IN  /\ dbStore' = (dbStore \ {row}) \cup {updatedTodo}
                       /\ dbTodos' = {IF todo.id = call.editingTodo.id
                                      THEN updatedTodo ELSE todo : todo \in call.todos}
                       /\ dbEditingTodo' = NULL
                       /\ dbLoading' = TRUE
                       /\ dbCalls' = [dbCalls EXCEPT !.update =
                                         [pc |-> "awaitFetch", user |-> call.user]]
                       /\ UNCHANGED dbSignOutTimer
              ELSE /\ dbSignOutTimer' = (dbSignOutTimer \/ outcome = "jwt")
                   /\ dbLoading' = FALSE
                   /\ dbCalls' = [dbCalls EXCEPT !.update = Idle]
                   /\ UNCHANGED <<dbStore, dbTodos, dbEditingTodo>>
    /\ UNCHANGED <<dbUser, dbNextId, dbDeleteTodoId>>

\* lines 325-327: the delete button of a card opens the dialog
handleDeleteClick ==
    /\ cardsEnabled
    /\ \E todo \in dbTodos : dbDeleteTodoId' = todo.id
    /\ UNCHANGED <<dbUser, dbStore, dbNextId, dbTodos, dbEditingTodo, dbLoading,
                   dbSignOutTimer, dbCalls>>

\* lines 579-588: the dialog is closed without deleting
handleDeleteCancel ==
    /\ dbDeleteTodoId # 0
    /\ dbDeleteTodoId' = 0
    /\ UNCHANGED <<dbUser, dbStore, dbNextId, dbTodos, dbEditingTodo, dbLoading,
                   dbSignOutTimer, dbCalls>>

\* lines 333-364: the dialog is confirmed; the dialog closes on the click
handleDeleteTodo ==
    /\ dbCalls.delete = Idle
    /\ dbDeleteTodoId # 0
    /\ InFlight < MaxInFlight
    /\ dbDeleteTodoId' = 0
    /\ LET found == {todo \in dbTodos : todo.id = dbDeleteTodoId}
       IN  IF dbUser = Undefined
           THEN UNCHANGED <<dbLoading, dbCalls>>
           ELSE IF found = {}
           THEN UNCHANGED <<dbLoading, dbCalls>>
           ELSE IF (CHOOSE todo \in found : TRUE).user_id # dbUser
           THEN UNCHANGED <<dbLoading, dbCalls>>
           ELSE /\ dbLoading' = TRUE
                /\ dbCalls' = [dbCalls EXCEPT !.delete =
                                  [pc |-> "awaitStore", user |-> dbUser,
                                   todos |-> dbTodos, deleteTodoId |-> dbDeleteTodoId]]
    /\ UNCHANGED <<dbUser, dbStore, dbNextId, dbTodos, dbEditingTodo, dbSignOutTimer>>

\* lines 366-397: the delete is answered
DeleteStoreReply ==
    /\ dbCalls.delete.pc = "awaitStore"
    /\ \E outcome \in StoreOutcomes :
          LET call == dbCalls.delete
          IN  IF outcome = "ok"
              THEN /\ dbStore' = {t \in dbStore : ~(t.id = call.deleteTodoId
                                                    /\ t.user_id = call.user)}
                   /\ dbTodos' = {todo \in call.todos : todo.id # call.deleteTodoId}
                   /\ dbDeleteTodoId' = 0
                   /\ dbLoading' = TRUE
                   /\ dbCalls' = [dbCalls EXCEPT !.delete =
                                     [pc |-> "awaitFetch", user |-> call.user]]
                   /\ UNCHANGED dbSignOutTimer
              ELSE /\ dbSignOutTimer' = (dbSignOutTimer \/ outcome = "jwt")
                   /\ dbLoading' = FALSE
                   /\ dbCalls' = [dbCalls EXCEPT !.delete = Idle]
                   /\ UNCHANGED <<dbStore, dbTodos, dbDeleteTodoId>>
    /\ UNCHANGED <<dbUser, dbNextId, dbEditingTodo>>

\* lines 404-441: the checkbox of a card; the list shows the new state at
\* once
handleToggleComplete ==
    /\ dbCalls.toggle = Idle
    /\ cardsEnabled
    /\ InFlight < MaxInFlight
    /\ \E todo \in dbTodos :
          IF dbUser = Undefined
          THEN UNCHANGED <<dbTodos, dbCalls>>
          ELSE IF todo.user_id # dbUser
          THEN UNCHANGED <<dbTodos, dbCalls>>
          ELSE LET newCompletedState == ~todo.completed
               IN  /\ dbTodos' = {IF t.id = todo.id
                                  THEN [t EXCEPT !.completed = newCompletedState]
                                  ELSE t : t \in dbTodos}
                   /\ dbCalls' = [dbCalls EXCEPT !.toggle =
                                     [pc |-> "awaitStore", user |-> dbUser,
                                      id |-> todo.id, todos |-> dbTodos,
                                      newCompletedState |-> newCompletedState]]
    /\ UNCHANGED <<dbUser, dbStore, dbNextId, dbEditingTodo, dbDeleteTodoId, dbLoading,
                   dbSignOutTimer>>

\* lines 443-474: the update of the flag is answered; on a failure the list
\* is set back to the `todos` of the handler
ToggleStoreReply ==
    /\ dbCalls.toggle.pc = "awaitStore"
    /\ \E outcome \in StoreOutcomes :
          LET call == dbCalls.toggle
          IN  IF outcome = "ok"
              THEN /\ dbStore' = {IF t.id = call.id /\ t.user_id = call.user
                                  THEN [t EXCEPT !.completed = call.newCompletedState]
                                  ELSE t : t \in dbStore}
                   /\ dbLoading' = TRUE
                   /\ dbCalls' = [dbCalls EXCEPT !.toggle =
                                     [pc |-> "awaitFetch", user |-> call.user]]
                   /\ UNCHANGED <<dbTodos, dbSignOutTimer>>
              ELSE /\ dbSignOutTimer' = (dbSignOutTimer \/ outcome = "jwt")
                   /\ dbTodos' = call.todos
                   /\ dbCalls' = [dbCalls EXCEPT !.toggle = Idle]
                   /\ UNCHANGED <<dbStore, dbLoading>>
    /\ UNCHANGED <<dbUser, dbNextId, dbEditingTodo, dbDeleteTodoId>>

\* lines 80-82, 211-213, 292-294, 372-374, 449-451: the timer set after an
\* expired JWT runs signOut, which clears the user when the sign-out is
\* accepted
SignOutTimer ==
    /\ dbSignOutTimer
    /\ dbSignOutTimer' = FALSE
    /\ \E accepted \in BOOLEAN : dbUser' = IF accepted THEN Undefined ELSE dbUser
    /\ UNCHANGED <<dbStore, dbNextId, dbTodos, dbEditingTodo, dbDeleteTodoId, dbLoading,
                   dbCalls>>

(***************************************************************************)
(* The auth hook (src/hooks/use-auth.ts): authState, the fetchUser calls   *)
(* in flight, cut at their two awaits, signOut, and the listener of        *)
(* onAuthStateChange.  auSession is the session the Supabase client holds. *)
(***************************************************************************)
\* the number of fetchUser calls that run at the same time: the one of the
\* effect and the ones of refetch
MaxFetches == 2

\* lines 35-45: fetchUser is called again (refetch, or the effect run anew)
\* and runs up to its first await
fetchUser ==
    /\ \E slot \in 1..MaxFetches :
          /\ auFetch[slot] = Idle
          /\ \A other \in 1..(slot - 1) : auFetch[other] # Idle
          /\ auFetch' = [auFetch EXCEPT ![slot] = [pc |-> "awaitSession"]]
    /\ authState' = [authState EXCEPT !.isLoading = TRUE, !.error = "none"]
    /\ UNCHANGED <<auSession, auSignOut>>

\* lines 42-60: getSession is answered with the session the client holds;
\* with a session, getUser is sent for the user of that session
GetSessionReply ==
    /\ \E slot \in 1..MaxFetches, outcome \in {"ok", "error", "threw"} :
          /\ auFetch[slot].pc = "awaitSession"
          /\ IF outcome = "threw"
             THEN /\ authState' = [user |-> Undefined, isLoading |-> FALSE,
                                   error |-> "exception"]
                  /\ auFetch' = [auFetch EXCEPT ![slot] = Idle]
             ELSE IF outcome = "error" \/ auSession = Undefined
             THEN /\ authState' = [user |-> Undefined, isLoading |-> FALSE,
                                   error |-> "none"]
                  /\ auFetch' = [auFetch EXCEPT ![slot] = Idle]
             ELSE /\ auFetch' = [auFetch EXCEPT
                                   ![slot] = [pc |-> "awaitUser", user |-> auSession]]
                  /\ UNCHANGED authState
    /\ UNCHANGED <<auSession, auSignOut>>

\* lines 57-82: getUser is answered with the user it was sent for, with an
\* error, or with an exception
GetUserReply ==
    /\ \E slot \in 1..MaxFetches, outcome \in {"ok", "error", "threw"} :
          /\ auFetch[slot].pc = "awaitUser"
          /\ authState' =
                (CASE outcome = "ok" ->
                        [user |-> auFetch[slot].user, isLoading |-> FALSE,
                         error |-> "none"]
                   [] outcome = "error" ->
                        [user |-> Undefined, isLoading |-> FALSE, error |-> "userError"]
                   [] outcome = "threw" ->
                        [user |-> Undefined, isLoading |-> FALSE, error |-> "exception"])
          /\ auFetch' = [auFetch EXCEPT ![slot] = Idle]
    /\ UNCHANGED <<auSession, auSignOut>>

\* lines 124-148: the listener of onAuthStateChange
onAuthStateChange(event, session) ==
    IF event = "SIGNED_IN" /\ session # Undefined
    THEN [user |-> session, isLoading |-> FALSE, error |-> "none"]
    ELSE IF event = "SIGNED_OUT"
    THEN [user |-> Undefined, isLoading |-> FALSE, error |-> "none"]
    ELSE IF event = "TOKEN_REFRESHED" /\ session # Undefined
    THEN [user |-> session, isLoading |-> FALSE, error |-> "none"]
    ELSE authState

\* the client reports a change of its session: a sign-in as some user, a
\* sign-out, or a refreshed token or an updated user of the session it holds
AuthStateChange ==
    /\ \E event \in {"SIGNED_IN", "SIGNED_OUT", "TOKEN_REFRESHED", "USER_UPDATED"},
          user \in Users :
          LET session == CASE event = "SIGNED_IN" -> user
                           [] event = "SIGNED_OUT" -> Undefined
                           [] OTHER -> auSession
          IN  /\ event \in {"TOKEN_REFRESHED", "USER_UPDATED"} => auSession # Undefined
              /\ auSession' = session
              /\ authState' = onAuthStateChange(event, session)
    /\ UNCHANGED <<auFetch, auSignOut>>

\* lines 88-91: signOut is called
signOut ==
    /\ auSignOut = Idle
    /\ auSignOut' = [pc |-> "awaitSignOut"]
    /\ UNCHANGED <<auSession, authState, auFetch>>

\* lines 91-110: the sign-out is answered; when it is accepted the client
\* has dropped its session and told the listener, and the state is cleared
SignOutReply ==
    /\ auSignOut.pc = "awaitSignOut"
    /\ auSignOut' = Idle
    /\ \E accepted \in BOOLEAN :
          IF accepted
          THEN /\ auSession' = Undefined
               /\ authState' = [user |-> Undefined, isLoading |-> FALSE, error |-> "none"]
          ELSE UNCHANGED <<auSession, authState>>
    /\ UNCHANGED auFetch

(***************************************************************************)
(* Specifications.                                                         *)
(***************************************************************************)
SanNext == Sanitize /\ UNCHANGED <<ppVars, exVars, smVars, mwVars, dbVars, auVars>>

\* one raw input to sanitize; the other components are not running
SanInit ==
    /\ sanPc = "input"
    /\ sanRaw \in RawInputs
    /\ sanResult = NULL
    /\ ppPc = "off"
    /\ ppReply = NULL
    /\ ppInput = <<>>
    /\ ppClock = NULL
    /\ ppOut = NULL
    /\ ppOut2 = NULL
    /\ exPc = "off"
    /\ exReq = NULL
    /\ exNow = NULL
    /\ exValidation = NULL
    /\ exPrompt = NULL
    /\ exModelCalls = 0
    /\ exCall = NULL
    /\ exResp = NULL
    /\ smPc = "off"
    /\ store = {}
    /\ smReq = NULL
    /\ smNow = NULL
    /\ smTodos = NULL
    /\ smPrompt = NULL
    /\ smModelCalls = 0
    /\ smCall = NULL
    /\ smResp = NULL
    /\ mwPc = "off"
    /\ mwReq = NULL
    /\ mwSession = NULL
    /\ mwResp = NULL
    /\ dbUser = Undefined
    /\ dbStore = {}
    /\ dbNextId = 1
    /\ dbTodos = {}
    /\ dbEditingTodo = NULL
    /\ dbDeleteTodoId = 0
    /\ dbLoading = FALSE
    /\ dbSignOutTimer = FALSE
    /\ dbCalls = NULL
    /\ auSession = Undefined
    /\ authState = NULL
    /\ auFetch = <<>>
    /\ auSignOut = Idle

SpecSanitize == SanInit /\ [][SanNext]_vars

PostNext ==
    \/ Postprocess /\ UNCHANGED <<sanVars, exVars, smVars, mwVars, dbVars, auVars>>
    \/ PostprocessAgain /\ UNCHANGED <<sanVars, exVars, smVars, mwVars, dbVars, auVars>>

\* one reply, input and clock for the post-processor
PostInit ==
    /\ sanPc = "off"
    /\ sanRaw = <<>>
    /\ sanResult = NULL
    /\ ppPc = "input"
    /\ \E case \in TitleCases \cup DateCases :
          /\ ppReply = case.reply
          /\ ppInput = case.input
          /\ ppClock = case.clock
    /\ ppOut = NULL
    /\ ppOut2 = NULL
    /\ exPc = "off"
    /\ exReq = NULL
    /\ exNow = NULL
    /\ exValidation = NULL
    /\ exPrompt = NULL
    /\ exModelCalls = 0
    /\ exCall = NULL
    /\ exResp = NULL
    /\ smPc = "off"
    /\ store = {}
    /\ smReq = NULL
    /\ smNow = NULL
    /\ smTodos = NULL
    /\ smPrompt = NULL
    /\ smModelCalls = 0
    /\ smCall = NULL
    /\ smResp = NULL
    /\ mwPc = "off"
    /\ mwReq = NULL
    /\ mwSession = NULL
    /\ mwResp = NULL
    /\ dbUser = Undefined
    /\ dbStore = {}
    /\ dbNextId = 1
    /\ dbTodos = {}
    /\ dbEditingTodo = NULL
    /\ dbDeleteTodoId = 0
    /\ dbLoading = FALSE
    /\ dbSignOutTimer = FALSE
    /\ dbCalls = NULL
    /\ auSession = Undefined
    /\ authState = NULL
    /\ auFetch = <<>>
    /\ auSignOut = Idle

SpecPost == PostInit /\ [][PostNext]_vars

ExtractNext ==
    \/ ExtractReceive /\ UNCHANGED <<sanVars, ppVars, smVars, mwVars, dbVars, auVars>>
    \/ ExtractModelReply /\ UNCHANGED <<sanVars, ppVars, smVars, mwVars, dbVars, auVars>>
    \/ ExtractModelLate /\ UNCHANGED <<sanVars, ppVars, smVars, mwVars, dbVars, auVars>>
    \/ ExtractModelError /\ UNCHANGED <<sanVars, ppVars, smVars, mwVars, dbVars, auVars>>

\* the extraction route before a request
ExtractInit ==
    /\ sanPc = "off"
    /\ sanRaw = <<>>
    /\ sanResult = NULL
    /\ ppPc = "off"
    /\ ppReply = NULL
    /\ ppInput = <<>>
    /\ ppClock = NULL
    /\ ppOut = NULL
    /\ ppOut2 = NULL
    /\ exPc = "idle"
    /\ exReq = NULL
    /\ exNow = NULL
    /\ exValidation = NULL
    /\ exPrompt = NULL
    /\ exModelCalls = 0
    /\ exCall = NULL
    /\ exResp = NULL
    /\ smPc = "off"
    /\ store = {}
    /\ smReq = NULL
    /\ smNow = NULL
    /\ smTodos = NULL
    /\ smPrompt = NULL
    /\ smModelCalls = 0
    /\ smCall = NULL
    /\ smResp = NULL
    /\ mwPc = "off"
    /\ mwReq = NULL
    /\ mwSession = NULL
    /\ mwResp = NULL
    /\ dbUser = Undefined
    /\ dbStore = {}
    /\ dbNextId = 1
    /\ dbTodos = {}
    /\ dbEditingTodo = NULL
    /\ dbDeleteTodoId = 0
    /\ dbLoading = FALSE
    /\ dbSignOutTimer = FALSE
    /\ dbCalls = NULL
    /\ auSession = Undefined
    /\ authState = NULL
    /\ auFetch = <<>>
    /\ auSignOut = Idle

SpecExtract == ExtractInit /\ [][ExtractNext]_vars

SummaryNext ==
    \/ SummaryReceive /\ UNCHANGED <<sanVars, ppVars, exVars, mwVars, dbVars, auVars>>
    \/ SummaryAuthReply /\ UNCHANGED <<sanVars, ppVars, exVars, mwVars, dbVars, auVars>>
    \/ SummaryStoreError /\ UNCHANGED <<sanVars, ppVars, exVars, mwVars, dbVars, auVars>>
    \/ SummaryStoreReply /\ UNCHANGED <<sanVars, ppVars, exVars, mwVars, dbVars, auVars>>
    \/ SummaryModelReply /\ UNCHANGED <<sanVars, ppVars, exVars, mwVars, dbVars, auVars>>
    \/ SummaryModelLate /\ UNCHANGED <<sanVars, ppVars, exVars, mwVars, dbVars, auVars>>
    \/ SummaryModelError /\ UNCHANGED <<sanVars, ppVars, exVars, mwVars, dbVars, auVars>>

\* the summary route before a request, over a store of tasks
SummaryInit ==
    /\ sanPc = "off"
    /\ sanRaw = <<>>
    /\ sanResult = NULL
    /\ ppPc = "off"
    /\ ppReply = NULL
    /\ ppInput = <<>>
    /\ ppClock = NULL
    /\ ppOut = NULL
    /\ ppOut2 = NULL
    /\ exPc = "off"
    /\ exReq = NULL
    /\ exNow = NULL
    /\ exValidation = NULL
    /\ exPrompt = NULL
    /\ exModelCalls = 0
    /\ exCall = NULL
    /\ exResp = NULL
    /\ smPc = "idle"
    /\ store \in Stores
    /\ smReq = NULL
    /\ smNow = NULL
    /\ smTodos = NULL
    /\ smPrompt = NULL
    /\ smModelCalls = 0
    /\ smCall = NULL
    /\ smResp = NULL
    /\ mwPc = "off"
    /\ mwReq = NULL
    /\ mwSession = NULL
    /\ mwResp = NULL
    /\ dbUser = Undefined
    /\ dbStore = {}
    /\ dbNextId = 1
    /\ dbTodos = {}
    /\ dbEditingTodo = NULL
    /\ dbDeleteTodoId = 0
    /\ dbLoading = FALSE
    /\ dbSignOutTimer = FALSE
    /\ dbCalls = NULL
    /\ auSession = Undefined
    /\ authState = NULL
    /\ auFetch = <<>>
    /\ auSignOut = Idle

SpecSummary == SummaryInit /\ [][SummaryNext]_vars

RoutesNext ==
    \/ ExtractNext
    \/ SummaryNext

\* the two routes before a request to one of them
RoutesInit ==
    /\ sanPc = "off"
    /\ sanRaw = <<>>
    /\ sanResult = NULL
    /\ ppPc = "off"
    /\ ppReply = NULL
    /\ ppInput = <<>>
    /\ ppClock = NULL
    /\ ppOut = NULL
    /\ ppOut2 = NULL
    /\ exPc \in {"idle", "off"}
    /\ exReq = NULL
    /\ exNow = NULL
    /\ exValidation = NULL
    /\ exPrompt = NULL
    /\ exModelCalls = 0
    /\ exCall = NULL
    /\ exResp = NULL
    /\ smPc = IF exPc = "idle" THEN "off" ELSE "idle"
    /\ store \in IF smPc = "idle" THEN Stores ELSE {{}}
    /\ smReq = NULL
    /\ smNow = NULL
    /\ smTodos = NULL
    /\ smPrompt = NULL
    /\ smModelCalls = 0
    /\ smCall = NULL
    /\ smResp = NULL
    /\ mwPc = "off"
    /\ mwReq = NULL
    /\ mwSession = NULL
    /\ mwResp = NULL
    /\ dbUser = Undefined
    /\ dbStore = {}
    /\ dbNextId = 1
    /\ dbTodos = {}
    /\ dbEditingTodo = NULL
    /\ dbDeleteTodoId = 0
    /\ dbLoading = FALSE
    /\ dbSignOutTimer = FALSE
    /\ dbCalls = NULL
    /\ auSession = Undefined
    /\ authState = NULL
    /\ auFetch = <<>>
    /\ auSignOut = Idle

SpecRoutes == RoutesInit /\ [][RoutesNext]_vars

MiddlewareNext ==
    \/ MiddlewareReceive /\ UNCHANGED <<sanVars, ppVars, exVars, smVars, dbVars, auVars>>
    \/ MiddlewareSessionReply /\ UNCHANGED <<sanVars, ppVars, exVars, smVars, dbVars, auVars>>

\* the middleware before a request
MiddlewareInit ==
    /\ sanPc = "off"
    /\ sanRaw = <<>>
    /\ sanResult = NULL
    /\ ppPc = "off"
    /\ ppReply = NULL
    /\ ppInput = <<>>
    /\ ppClock = NULL
    /\ ppOut = NULL
    /\ ppOut2 = NULL
    /\ exPc = "off"
    /\ exReq = NULL
    /\ exNow = NULL
    /\ exValidation = NULL
    /\ exPrompt = NULL
    /\ exModelCalls = 0
    /\ exCall = NULL
    /\ exResp = NULL
    /\ smPc = "off"
    /\ store = {}
    /\ smReq = NULL
    /\ smNow = NULL
    /\ smTodos = NULL
    /\ smPrompt = NULL
    /\ smModelCalls = 0
    /\ smCall = NULL
    /\ smResp = NULL
    /\ mwPc = "idle"
    /\ mwReq = NULL
    /\ mwSession = NULL
    /\ mwResp = NULL
    /\ dbUser = Undefined
    /\ dbStore = {}
    /\ dbNextId = 1
    /\ dbTodos = {}
    /\ dbEditingTodo = NULL
    /\ dbDeleteTodoId = 0
    /\ dbLoading = FALSE
    /\ dbSignOutTimer = FALSE
    /\ dbCalls = NULL
    /\ auSession = Undefined
    /\ authState = NULL
    /\ auFetch = <<>>
    /\ auSignOut = Idle

SpecMiddleware == MiddlewareInit /\ [][MiddlewareNext]_vars

DashboardNext ==
    \/ FetchRead /\ UNCHANGED <<sanVars, ppVars, exVars, smVars, mwVars, auVars>>
    \/ FetchReply /\ UNCHANGED <<sanVars, ppVars, exVars, smVars, mwVars, auVars>>
    \/ handleAddTodo /\ UNCHANGED <<sanVars, ppVars, exVars, smVars, mwVars, auVars>>
    \/ AddStoreReply /\ UNCHANGED <<sanVars, ppVars, exVars, smVars, mwVars, auVars>>
    \/ handleEditTodo /\ UNCHANGED <<sanVars, ppVars, exVars, smVars, mwVars, auVars>>
    \/ handleUpdateTodo /\ UNCHANGED <<sanVars, ppVars, exVars, smVars, mwVars, auVars>>
    \/ UpdateStoreReply /\ UNCHANGED <<sanVars, ppVars, exVars, smVars, mwVars, auVars>>
    \/ handleDeleteClick /\ UNCHANGED <<sanVars, ppVars, exVars, smVars, mwVars, auVars>>
    \/ handleDeleteCancel /\ UNCHANGED <<sanVars, ppVars, exVars, smVars, mwVars, auVars>>
    \/ handleDeleteTodo /\ UNCHANGED <<sanVars, ppVars, exVars, smVars, mwVars, auVars>>
    \/ DeleteStoreReply /\ UNCHANGED <<sanVars, ppVars, exVars, smVars, mwVars, auVars>>
    \/ handleToggleComplete /\ UNCHANGED <<sanVars, ppVars, exVars, smVars, mwVars, auVars>>
    \/ ToggleStoreReply /\ UNCHANGED <<sanVars, ppVars, exVars, smVars, mwVars, auVars>>
    \/ SignOutTimer /\ UNCHANGED <<sanVars, ppVars, exVars, smVars, mwVars, auVars>>

\* the page has been rendered for a signed-in user: the list is empty and
\* the first fetch of the tasks is under way; the store holds a task of
\* another user and none of the user
DashboardInit ==
    /\ sanPc = "off"
    /\ sanRaw = <<>>
    /\ sanResult = NULL
    /\ ppPc = "off"
    /\ ppReply = NULL
    /\ ppInput = <<>>
    /\ ppClock = NULL
    /\ ppOut = NULL
    /\ ppOut2 = NULL
    /\ exPc = "off"
    /\ exReq = NULL
    /\ exNow = NULL
    /\ exValidation = NULL
    /\ exPrompt = NULL
    /\ exModelCalls = 0
    /\ exCall = NULL
    /\ exResp = NULL
    /\ smPc = "off"
    /\ store = {}
    /\ smReq = NULL
    /\ smNow = NULL
    /\ smTodos = NULL
    /\ smPrompt = NULL
    /\ smModelCalls = 0
    /\ smCall = NULL
    /\ smResp = NULL
    /\ mwPc = "off"
    /\ mwReq = NULL
    /\ mwSession = NULL
    /\ mwResp = NULL
    /\ dbUser = "u1"
    /\ dbStore = {[id |-> -1, user_id |-> "u2", title |-> "b", completed |-> FALSE]}
    /\ dbNextId = 1
    /\ dbTodos = {}
    /\ dbEditingTodo = NULL
    /\ dbDeleteTodoId = 0
    /\ dbLoading = TRUE
    /\ dbSignOutTimer = FALSE
    /\ dbCalls = [mount |-> [pc |-> "awaitFetch", user |-> "u1"], toggle |-> Idle,
                  add |-> Idle, update |-> Idle, delete |-> Idle]
    /\ auSession = Undefined
    /\ authState = NULL
    /\ auFetch = <<>>
    /\ auSignOut = Idle

SpecDashboard == DashboardInit /\ [][DashboardNext]_vars

AuthNext ==
    \/ fetchUser /\ UNCHANGED <<sanVars, ppVars, exVars, smVars, mwVars, dbVars>>
    \/ GetSessionReply /\ UNCHANGED <<sanVars, ppVars, exVars, smVars, mwVars, dbVars>>
    \/ GetUserReply /\ UNCHANGED <<sanVars, ppVars, exVars, smVars, mwVars, dbVars>>
    \/ AuthStateChange /\ UNCHANGED <<sanVars, ppVars, exVars, smVars, mwVars, dbVars>>
    \/ signOut /\ UNCHANGED <<sanVars, ppVars, exVars, smVars, mwVars, dbVars>>
    \/ SignOutReply /\ UNCHANGED <<sanVars, ppVars, exVars, smVars, mwVars, dbVars>>

\* the hook has been mounted: the effect has called fetchUser, which waits
\* for getSession, and has subscribed the listener
AuthInit ==
    /\ sanPc = "off"
    /\ sanRaw = <<>>
    /\ sanResult = NULL
    /\ ppPc = "off"
    /\ ppReply = NULL
    /\ ppInput = <<>>
    /\ ppClock = NULL
    /\ ppOut = NULL
    /\ ppOut2 = NULL
    /\ exPc = "off"
    /\ exReq = NULL
    /\ exNow = NULL
    /\ exValidation = NULL
    /\ exPrompt = NULL
    /\ exModelCalls = 0
    /\ exCall = NULL
    /\ exResp = NULL
    /\ smPc = "off"
    /\ store = {}
    /\ smReq = NULL
    /\ smNow = NULL
    /\ smTodos = NULL
    /\ smPrompt = NULL
    /\ smModelCalls = 0
    /\ smCall = NULL
    /\ smResp = NULL
    /\ mwPc = "off"
    /\ mwReq = NULL
    /\ mwSession = NULL
    /\ mwResp = NULL
    /\ dbUser = Undefined
    /\ dbStore = {}
    /\ dbNextId = 1
    /\ dbTodos = {}
    /\ dbEditingTodo = NULL
    /\ dbDeleteTodoId = 0
    /\ dbLoading = FALSE
    /\ dbSignOutTimer = FALSE
    /\ dbCalls = NULL
    /\ auSession \in Users \cup {Undefined}
    /\ authState = [user |-> Undefined, isLoading |-> TRUE, error |-> "none"]
    /\ auFetch = [slot \in 1..MaxFetches |->
                     IF slot = 1 THEN [pc |-> "awaitSession"] ELSE Idle]
    /\ auSignOut = Idle

SpecAuth == AuthInit /\ [][AuthNext]_vars

(***************************************************************************)
(* C9.                                                                     *)
(***************************************************************************)
HasLetterOrDigit(s) == \E i \in 1..Len(s) : s[i].c = "L"

\* the verdict the ordered checks give when the maximum length is measured on a string of length len
OrderedVerdict(raw, len) ==
    IF StrLen(Trim(raw)) = 0 THEN "EmptyInput"
    ELSE IF StrLen(Trim(raw)) = 1 THEN "TooShort"
    ELSE IF len >= MaxInputLen + 1 THEN "TooLong"
    ELSE IF ~HasLetterOrDigit(raw) THEN "NoMeaningfulContent"
    ELSE "none"

\* C9 as stated: for every raw input the sanitizer reports the first failing
\* check in the order EmptyInput, TooShort, TooLong (length 501 or more),
\* NoMeaningfulContent, and accepts the input otherwise.
C9_Original ==
    sanPc = "done" =>
        sanResult.validation.error = OrderedVerdict(sanRaw, StrLen(sanRaw))

\* C9 amended: the same order of checks, TooLong being decided on the length
\* of the normalized text (trimmed, whitespace runs collapsed to one space).
C9_Amended ==
    sanPc = "done" =>
        /\ sanResult.validation.error =
              OrderedVerdict(sanRaw, StrLen(CollapseSpaces(Trim(sanRaw))))
        /\ sanResult.validation.isValid = (sanResult.validation.error = "none")

\* a raw input of more than 500 characters whose normalized text is accepted
C9_Witness ==
    /\ sanPc = "done"
    /\ StrLen(sanRaw) > MaxInputLen
    /\ sanResult.validation.isValid

(***************************************************************************)
(* C4.                                                                     *)
(***************************************************************************)
ReplyTime == IF ppReply.due_time = NULL \/ ppReply.due_time = EmptyString
             THEN [k |-> "time", h |-> 9, m |-> 0]
             ELSE ppReply.due_time

\* C4: a model date strictly before the caller's current day comes back as
\* the current date with the model's time of day (09:00 when it gave none);
\* a date on or after the current day comes back as given, with its time.
C4_DateRepair ==
    (ppPc = "once" /\ ppReply.due_date.k = "date") =>
        ppOut.due_date =
            [k |-> "datetime",
             d |-> IF ppReply.due_date.d < ppClock.day THEN ppClock.day
                   ELSE ppReply.due_date.d,
             t |-> ReplyTime]

\* a date 3 days in the past with time 15:00 has become today at 15:00
C4_Witness ==
    /\ ppPc = "once"
    /\ ppReply.due_date = DateString(ppClock.day - 3)
    /\ ppReply.due_time = [k |-> "time", h |-> 15, m |-> 0]
    /\ ppOut.due_date = [k |-> "datetime", d |-> ppClock.day,
                         t |-> [k |-> "time", h |-> 15, m |-> 0]]

(***************************************************************************)
(* C5.                                                                     *)
(***************************************************************************)
\* C5: a due-date string that cannot be parsed as an absolute date gives a
\* result whose due instant is null.
C5_UnparseableDropped ==
    (ppPc = "once" /\ ppReply.due_date.k = "text") => ppOut.due_date = NULL

(***************************************************************************)
(* C6.                                                                     *)
(***************************************************************************)
\* C6 as stated: the post-processor applied to its own result returns that
\* result: title, description, priority, category and due instant unchanged.
C6_Original ==
    ppPc = "twice" => ppOut2 = ppOut

\* C6 amended: title, description, priority and category are unchanged by
\* the second application, and so is a due instant that is null.
C6_Amended ==
    ppPc = "twice" =>
        /\ ppOut2.title = ppOut.title
        /\ ppOut2.description = ppOut.description
        /\ ppOut2.priority = ppOut.priority
        /\ ppOut2.category = ppOut.category
        /\ (ppOut.due_date = NULL => ppOut2.due_date = NULL)

\* a second application after a first one that truncated the title
C6_Witness ==
    /\ ppPc = "twice"
    /\ StrLen(ppReply.title) > MaxTitleLen
    /\ ppOut.title # ppReply.title
    /\ ppOut.due_date = NULL
    /\ ppOut2 = ppOut

(***************************************************************************)
(* C7.                                                                     *)
(***************************************************************************)
\* C7: the post-processor returns a result with every field defined (only
\* the due instant may be null): priority one of the three, medium when
\* missing; category one of the four, other when missing; description the
\* original input when the model gave none.
C7_FullyPopulated ==
    ppPc = "once" =>
        /\ DOMAIN ppOut = {"title", "description", "priority", "category", "due_date"}
        /\ ppOut.priority \in Priorities
        /\ (ppReply.priority = Undefined => ppOut.priority = "medium")
        /\ (ppReply.priority # Undefined => ppOut.priority = ppReply.priority)
        /\ ppOut.category \in Categories
        /\ (ppReply.category = Undefined => ppOut.category = "other")
        /\ (ppReply.category # Undefined => ppOut.category = ppReply.category)
        /\ ppOut.description # NULL
        /\ ppOut.description.k = "str"
        /\ (ppReply.description = NULL => ppOut.description = Str(ppInput))
        /\ (ppOut.due_date = NULL \/ ppOut.due_date.k \in {"datetime", "suffixed"})

\* a reply without priority, category and description has been defaulted
C7_Witness ==
    /\ ppPc = "once"
    /\ ppReply.priority = Undefined
    /\ ppReply.category = Undefined
    /\ ppReply.description = NULL
    /\ ppOut.priority = "medium"
    /\ ppOut.category = "other"
    /\ ppOut.description = Str(ppInput)

(***************************************************************************)
(* C8.                                                                     *)
(***************************************************************************)
\* the title of the three cases, the first one decided on a length of short
ExpectedTitle(short) ==
    IF short < 2 THEN Trim(Substring0(ppInput, 20))
    ELSE IF StrLen(ppReply.title) > 100
         THEN Trim(Concat(Substring0(ppReply.title, 97), <<[c |-> "P", n |-> 3]>>))
         ELSE Trim(ppReply.title)

\* C8 as stated: the title is the first 20 characters of the input when the
\* model's title has fewer than 2 characters, its first 97 characters and an
\* ellipsis when it has more than 100, the model's title otherwise, trimmed;
\* it is never empty and never longer than 100 characters.
C8_Original ==
    ppPc = "once" =>
        /\ ppOut.title = ExpectedTitle(StrLen(ppReply.title))
        /\ ppOut.title # <<>>
        /\ StrLen(ppOut.title) <= 100

\* C8 amended: the first case is the model's title having fewer than 2
\* characters once its surrounding whitespace is trimmed.
C8_Amended ==
    ppPc = "once" =>
        /\ ppOut.title = ExpectedTitle(StrLen(Trim(ppReply.title)))
        /\ ppOut.title # <<>>
        /\ StrLen(ppOut.title) <= 100

\* a whitespace-only title of 2 or more characters replaced by the input
C8_Witness ==
    /\ ppPc = "once"
    /\ StrLen(ppReply.title) >= 2
    /\ StrLen(Trim(ppReply.title)) = 0
    /\ ppOut.title = Trim(Substring0(ppInput, 20))
    /\ ppOut.title # <<>>


(***************************************************************************)
(* C1.                                                                     *)
(***************************************************************************)
\* the instant that places a task in a period: its due instant, else its
\* creation instant
TargetInstant(todo) == IF todo.due_date # NULL THEN todo.due_date.at ELSE todo.created_at

\* the Monday of the week of a day (day 4 is Monday 1970-01-05)
MondayOf(day) == day - ((day - 4) % 7)

\* the task falls in the requested period of the request
InRequestedPeriod(todo) ==
    IF smReq.body.period = "today"
    THEN TargetInstant(todo) \div 24 = smNow.at \div 24
    ELSE MondayOf(TargetInstant(todo) \div 24) = MondayOf(smNow.at \div 24)

OwnerTodos == {todo \in store : todo.user_id = smReq.body.userId}

\* C1: when the request has reached aggregation and no task of the owner
\* falls in the requested period, the request has returned the canned
\* empty-period summary and the model has been called zero times.
C1_EmptyPeriodNoModelCall ==
    (smTodos.k = "rows" /\ \A todo \in OwnerTodos : ~InRequestedPeriod(todo)) =>
        /\ smPc = "done"
        /\ smResp.status = 200
        /\ smResp.summary = (IF smReq.body.period = "today" THEN "NoTodosToday"
                             ELSE "NoTodosThisWeek")
        /\ smResp.urgentTasks = <<>>
        /\ smResp.insights = <<>>
        /\ smResp.recommendations = <<>>
        /\ smModelCalls = 0

\* the owner has tasks, none of them in the period, and got the canned summary
C1_Witness ==
    /\ smPc = "done"
    /\ smTodos.k = "rows"
    /\ OwnerTodos # {}
    /\ \A todo \in OwnerTodos : ~InRequestedPeriod(todo)
    /\ smResp.status = 200
    /\ smModelCalls = 0

(***************************************************************************)
(* C3.                                                                     *)
(***************************************************************************)
\* incomplete, and high-priority or due no later than 1 day after now
UrgentByDefinition(todo) ==
    /\ ~todo.completed
    /\ \/ todo.priority = "high"
       \/ todo.due_date # NULL /\ todo.due_date.at <= smNow.at + 24

\* C3 as stated: the urgent-task set computed ahead of the model call is
\* exactly the set of the incomplete tasks of the snapshot that are
\* high-priority or due within 1 day of now.
C3_Original ==
    smPc = "awaitModel" =>
        smPrompt.statistics.urgentTasks = {todo \in OwnerTodos : UrgentByDefinition(todo)}

\* C3 amended: it is exactly the set of the incomplete tasks in the
\* requested period that are high-priority or due no later than 1 day after now.
C3_Amended ==
    smPc = "awaitModel" =>
        smPrompt.statistics.urgentTasks =
            {todo \in OwnerTodos : InRequestedPeriod(todo) /\ UrgentByDefinition(todo)}

\* a medium-priority incomplete task due 12 hours after now is urgent, and a
\* completed high-priority task is not
C3_Witness ==
    /\ smPc = "awaitModel"
    /\ \E todo \in smPrompt.statistics.urgentTasks :
          todo.priority = "medium" /\ todo.due_date = At(smNow.at + 12)
    /\ \E todo \in OwnerTodos :
          /\ todo.completed
          /\ todo.priority = "high"
          /\ InRequestedPeriod(todo)
          /\ todo \notin smPrompt.statistics.urgentTasks

(***************************************************************************)
(* C2.                                                                     *)
(***************************************************************************)
\* C2: once the sanitizer has rejected the text of a request, the request
\* has ended with the validation error (status 400) and the model has not
\* been called.
C2_RejectedNoModelCall ==
    (exValidation # NULL /\ ~exValidation.isValid) =>
        /\ exPc = "done"
        /\ exResp.status = 400
        /\ exResp.error \in {"EmptyInput", "TooShort", "TooLong", "NoMeaningfulContent"}
        /\ exModelCalls = 0

\* a text of symbols only has been refused
C2_Witness ==
    /\ exPc = "done"
    /\ exReq.body = [k |-> "json", input |-> Str(<<[c |-> "P", n |-> 2]>>), keywords |-> {}]
    /\ exResp = [status |-> 400, error |-> "NoMeaningfulContent"]
    /\ exModelCalls = 0

(***************************************************************************)
(* C10.                                                                    *)
(***************************************************************************)
\* C10: the next Monday written into the prompt is the first Monday strictly
\* after the day of now: a Monday, not now's own date, at most 7 days ahead.
C10_NextMonday ==
    exPc = "awaitModel" =>
        LET nextMonday == exPrompt.context.nextMondayDate.d
        IN  /\ (nextMonday + 4) % 7 = 1
            /\ nextMonday > exNow.day
            /\ nextMonday <= exNow.day + 7

(***************************************************************************)
(* C11.                                                                    *)
(***************************************************************************)
\* C11: the Friday written into the prompt is the nearest Friday at or after
\* the day of now: a Friday, 0 to 6 days ahead, now's own date when now is a
\* Friday and now + 2 days when now is a Wednesday.
C11_ThisFriday ==
    exPc = "awaitModel" =>
        LET thisFriday == exPrompt.context.thisWeekFridayDate.d
        IN  /\ (thisFriday + 4) % 7 = 5
            /\ thisFriday >= exNow.day
            /\ thisFriday <= exNow.day + 6
            /\ (exNow.day + 4) % 7 = 5 => thisFriday = exNow.day
            /\ (exNow.day + 4) % 7 = 3 => thisFriday = exNow.day + 2

\* a request made on a Friday is waiting for the model with that very day as
\* its Friday
C11_Witness ==
    /\ exPc = "awaitModel"
    /\ (exNow.day + 4) % 7 = 5
    /\ exPrompt.context.thisWeekFridayDate = DateString(exNow.day)

(***************************************************************************)
(* C12.                                                                    *)
(***************************************************************************)
\* the rate is the quotient it should be: computed without a division by
\* zero, M / N * 100 when N > 0 and 0 when N = 0, between 0 and 100
RateOf(rate, M, N) ==
    /\ rate.den > 0
    /\ IF N > 0 THEN rate.num * N = M * 100 * rate.den ELSE rate.num = 0
    /\ 0 <= rate.num /\ rate.num <= 100 * rate.den

\* C12: the completion rate of a period with N tasks of which M are completed
\* is exactly M / N * 100 when N > 0 (62.5 when N = 8 and M = 5) and 0 when
\* N = 0; it is never a division by zero and lies between 0 and 100.
C12_CompletionRate ==
    smPc = "awaitModel" =>
        LET statistics == smPrompt.statistics
            period == {todo \in OwnerTodos : InRequestedPeriod(todo)}
            N == Cardinality(period)
            M == Cardinality({todo \in period : todo.completed})
        IN  /\ RateOf(statistics.completionRate, M, N)
            /\ (N = 8 /\ M = 5) => statistics.completionRate.num * 2
                                     = 125 * statistics.completionRate.den
            /\ RateOf(statistics.previousCompletionRate,
                      statistics.previousCompletedTodos, statistics.previousTotalTodos)

\* a week of 8 tasks, 5 of them completed, whose rate is 62.5 and whose
\* previous week is empty with rate 0
C12_Witness ==
    /\ smPc = "awaitModel"
    /\ smPrompt.statistics.totalTodos = 8
    /\ smPrompt.statistics.completedTodos = 5
    /\ smPrompt.statistics.completionRate.num * 2 = 125 * smPrompt.statistics.completionRate.den
    /\ smPrompt.statistics.previousTotalTodos = 0
    /\ smPrompt.statistics.previousCompletionRate.num = 0

(***************************************************************************)
(* C13.                                                                    *)
(***************************************************************************)
\* C13: the deadline compliance rate is taken over the tasks of the period
\* that have a due instant; a task is compliant exactly when it is completed
\* and due no later than now; the rate is compliant / with-due-date * 100 and
\* 0 when no task of the period has a due instant.
C13_DeadlineCompliance ==
    smPc = "awaitModel" =>
        LET statistics == smPrompt.statistics
            withDue == {todo \in OwnerTodos :
                           InRequestedPeriod(todo) /\ todo.due_date # NULL}
            compliant == {todo \in withDue :
                             todo.completed /\ todo.due_date.at <= smNow.at}
        IN  /\ statistics.todosWithDueDate = withDue
            /\ statistics.onTimeTodos = compliant
            /\ RateOf(statistics.deadlineComplianceRate,
                      Cardinality(compliant), Cardinality(withDue))

\* a period with a completed task due at the very instant of now, which is
\* compliant, and a task without a due instant, which is not counted: the
\* rate is 100
C13_Witness ==
    /\ smPc = "awaitModel"
    /\ \E todo \in smPrompt.statistics.onTimeTodos : todo.due_date = smNow
    /\ \E todo \in smPrompt.todosData : todo.due_date = NULL
    /\ Cardinality(smPrompt.statistics.todosWithDueDate) = 1
    /\ smPrompt.statistics.deadlineComplianceRate.num
           = 100 * smPrompt.statistics.deadlineComplianceRate.den

(***************************************************************************)
(* C14.                                                                    *)
(***************************************************************************)
\* the instant lies in the requested period: the calendar day of now, or the
\* week of now that starts on Monday
InstantInPeriod(instant) ==
    IF smReq.body.period = "today"
    THEN instant \div 24 = smNow.at \div 24
    ELSE MondayOf(instant \div 24) = MondayOf(smNow.at \div 24)

\* the tasks that the request has kept for its period, once the store has
\* answered
KeptTodos == IF smPrompt = NULL THEN {} ELSE smPrompt.todosData

\* C14: a task belongs to the period exactly when its due instant lies in the
\* period if it has one, and otherwise exactly when its creation instant lies
\* in the period; a task due outside the period is excluded even when it was
\* created inside.
C14_PeriodMembership ==
    smTodos.k = "rows" =>
        \A todo \in OwnerTodos :
            /\ todo.due_date # NULL =>
                   (todo \in KeptTodos <=> InstantInPeriod(todo.due_date.at))
            /\ todo.due_date = NULL =>
                   (todo \in KeptTodos <=> InstantInPeriod(todo.created_at))
            /\ (/\ todo.due_date # NULL
                /\ ~InstantInPeriod(todo.due_date.at)
                /\ InstantInPeriod(todo.created_at)) => todo \notin KeptTodos

\* a week request over a task created this week and due next Monday, which
\* is left out, and a task without due instant created this week, which is
\* kept
C14_Witness ==
    /\ smPc = "awaitModel"
    /\ smReq.body.period = "week"
    /\ \E todo \in OwnerTodos :
          /\ todo.due_date # NULL
          /\ ~InstantInPeriod(todo.due_date.at)
          /\ InstantInPeriod(todo.created_at)
          /\ todo \notin smPrompt.todosData
    /\ \E todo \in smPrompt.todosData : todo.due_date = NULL

(***************************************************************************)
(* C15.                                                                    *)
(***************************************************************************)
\* C15: a request to either route calls the model at most once; when the
\* call has thrown, the request has answered and no second call was made.
C15_AtMostOneModelCall ==
    /\ exModelCalls <= 1
    /\ smModelCalls <= 1
    /\ (exCall # NULL /\ exCall.k = "error") => (exPc = "done" /\ exModelCalls = 1)
    /\ (smCall # NULL /\ smCall.k = "error") => (smPc = "done" /\ smModelCalls = 1)

\* a summary request whose only model call has thrown and that has answered
\* with an error
C15_Witness ==
    /\ smPc = "done"
    /\ smCall # NULL
    /\ smCall.k = "error"
    /\ smModelCalls = 1
    /\ smResp.status >= 400

(***************************************************************************)
(* C16.                                                                    *)
(***************************************************************************)
\* C16: no request is still waiting on a model call that has not answered
\* within its deadline: by then the request has terminated with an error
\* response.
C16_NoWaitPastDeadline ==
    /\ exCall = Late => exPc = "done"
    /\ smCall = Late => smPc = "done"

(***************************************************************************)
(* C17.                                                                    *)
(***************************************************************************)
\* the reply of the provider has the four fields of a Summary, each of its
\* type
FourFieldReply(raw) ==
    /\ raw.summary.k = "string"
    /\ \A field \in {raw.urgentTasks, raw.insights, raw.recommendations} :
          field.k = "strings"

\* C17: once the provider has replied to a summary request, the response is
\* a Summary only when the reply has the four fields of the schema, and is
\* then the reply itself; any other reply ends the request with the
\* processing error, which carries no field of a Summary.
C17_SchemaOrError ==
    (smCall # NULL /\ smCall.k = "reply") =>
        /\ smPc = "done"
        /\ IF FourFieldReply(smCall.object)
           THEN smResp = [status |-> 200, summary |-> smCall.object.summary.v,
                          urgentTasks |-> smCall.object.urgentTasks.v,
                          insights |-> smCall.object.insights.v,
                          recommendations |-> smCall.object.recommendations.v]
           ELSE smResp = [status |-> 500, code |-> "SUMMARY_FAILED"]

\* a reply without recommendations has ended the request with the processing
\* error
C17_Witness ==
    /\ smPc = "done"
    /\ smCall # NULL
    /\ smCall.k = "reply"
    /\ smCall.object.recommendations = Missing
    /\ smResp = [status |-> 500, code |-> "SUMMARY_FAILED"]

(***************************************************************************)
(* C18.                                                                    *)
(***************************************************************************)
\* C18: when the input of an extraction request holds a keyword of the rule
\* table and the model has replied with an object of the schema, the priority
\* and the category of the result are the ones the rule table assigns to the
\* input.
C18_RuleTable ==
    (/\ exPc = "done"
     /\ exCall # NULL
     /\ exCall.k = "reply"
     /\ exReq.body.keywords # {}) =>
        /\ exResp.data.priority = rulePriority(exReq.body.keywords)
        /\ exResp.data.category = ruleCategory(exReq.body.keywords)

(***************************************************************************)
(* C19.                                                                    *)
(***************************************************************************)
\* the error of the provider signals a quota or rate-limit condition: by its
\* status code or by the words of its message
QuotaOrRateLimit(error) ==
    \/ error.statusCode = 429
    \/ error.message \cap {"429", "Too Many Requests", "rate limit",
                           "quota exceeded", "check quota"} # {}

\* C19: when the model call of a request to either route has thrown an error
\* that signals a quota or rate-limit condition, the response is the 429
\* response with code RATE_LIMIT_EXCEEDED.
C19_RateLimitResponse ==
    /\ (exCall # NULL /\ exCall.k = "error" /\ QuotaOrRateLimit(exCall.error)) =>
           exResp = [status |-> 429, code |-> "RATE_LIMIT_EXCEEDED"]
    /\ (smCall # NULL /\ smCall.k = "error" /\ QuotaOrRateLimit(smCall.error)) =>
           smResp = [status |-> 429, code |-> "RATE_LIMIT_EXCEEDED"]

(***************************************************************************)
(* C20.                                                                    *)
(***************************************************************************)
\* C20: when the read of the store of a summary request has failed, the
\* request has answered with an error response that carries no field of a
\* Summary, and the model has not been called.
C20_StoreErrorNoModelCall ==
    smTodos.k = "error" =>
        /\ smPc = "done"
        /\ smResp.status >= 400
        /\ DOMAIN smResp \cap {"summary", "urgentTasks", "insights", "recommendations"} = {}
        /\ smModelCalls = 0
        /\ smCall = NULL
        /\ smPrompt = NULL

\* the read of the store of a user with tasks in the period has failed and
\* the request has answered 500
C20_Witness ==
    /\ smTodos.k = "error"
    /\ smPc = "done"
    /\ smResp.status = 500
    /\ \E todo \in OwnerTodos : InRequestedPeriod(todo)
    /\ smModelCalls = 0

(***************************************************************************)
(* C21.                                                                    *)
(***************************************************************************)
\* C21: no step of a summary request creates, updates or deletes a task: the
\* contents of the store after the step are its contents before it.
C21_StoreUnchanged == [][store' = store]_vars

\* a request over a store with tasks has ended with the summary of the model
C21_Witness ==
    /\ smPc = "done"
    /\ store # {}
    /\ smTodos.k = "rows"
    /\ smCall # NULL
    /\ smCall.k = "reply"
    /\ smResp.status = 200

(***************************************************************************)
(* C22.                                                                    *)
(***************************************************************************)
\* C22: a request for the main page that carries no session is answered
\* with the redirect to /login, never with the page.
C22_MainPageRedirect ==
    (mwPc = "done" /\ mwReq.pathname = "/" /\ mwReq.cookie = "none") =>
        (mwResp.k = "redirect" /\ mwResp.to = "/login")

(***************************************************************************)
(* C23.                                                                    *)
(***************************************************************************)
\* the hours of the label of a time slot
SlotHours(slot) ==
    CASE slot = "morning" -> 9..11
      [] slot = "afternoon" -> 12..17
      [] slot = "evening" -> 18..20
      [] slot = "night" -> 21..23

\* C23: a time slot counts exactly the tasks of the period that have a due
\* instant whose hour of day lies in the hours of the slot; a task without
\* due instant, or due between 00:00 and 08:59, is counted in no slot.
C23_TimeSlots ==
    smPc = "awaitModel" =>
        \A slot \in {"morning", "afternoon", "evening", "night"} :
            smPrompt.statistics.timeSlots[slot].total =
                Cardinality({todo \in smPrompt.todosData :
                                /\ todo.due_date # NULL
                                /\ (todo.due_date.at % 24) \in SlotHours(slot)})

(***************************************************************************)
(* C24.                                                                    *)
(***************************************************************************)
\* the number of days, rounded up, from an instant to a later one
DaysRoundedUp(from, to) ==
    CHOOSE days \in 0..(to - from) : days * 24 >= to - from /\ (days - 1) * 24 < to - from

\* C24: the overdue list is exactly the tasks of the period that are not
\* completed and due strictly before now; the days overdue of each entry are
\* (now - due) / 1 day rounded up, and at least 1.
C24_OverdueList ==
    smPc = "awaitModel" =>
        LET statistics == smPrompt.statistics
            overdue == {todo \in OwnerTodos :
                           /\ InRequestedPeriod(todo)
                           /\ ~todo.completed
                           /\ todo.due_date # NULL
                           /\ todo.due_date.at < smNow.at}
        IN  /\ statistics.overdueTodos = overdue
            /\ {entry.todo : entry \in statistics.postponedTasks} = overdue
            /\ \A entry \in statistics.postponedTasks :
                  /\ entry.daysOverdue = DaysRoundedUp(entry.todo.due_date.at, smNow.at)
                  /\ entry.daysOverdue >= 1

\* a task due on Tuesday 09:00 that is 2 days overdue on Wednesday 18:00,
\* next to a task due at the instant of now, which is not overdue
C24_Witness ==
    /\ smPc = "awaitModel"
    /\ \E entry \in smPrompt.statistics.postponedTasks : entry.daysOverdue = 2
    /\ \E todo \in smPrompt.todosData :
          /\ ~todo.completed
          /\ todo.due_date = smNow
          /\ todo \notin smPrompt.statistics.overdueTodos

(***************************************************************************)
(* C25.                                                                    *)
(***************************************************************************)
\* the bucket chosen among these buckets is right: none when all are empty;
\* otherwise a bucket with a task whose rate no bucket with a task exceeds,
\* and, of the buckets of that rate, the one listed first
RightChoice(chosen, order, buckets) ==
    LET used == {i \in 1..Len(order) : buckets[order[i]].total > 0}
        atLeast(a, b) == a.completed * b.total >= b.completed * a.total
        best == {i \in used : \A j \in used : atLeast(buckets[order[i]], buckets[order[j]])}
    IN  IF used = {} THEN chosen = "undefined"
        ELSE \E i \in best : chosen = order[i] /\ \A j \in best : i <= j

\* C25: the most productive weekday and the most productive time slot are
\* each a bucket with at least one task whose completion rate is the highest
\* among the buckets with a task; among several such buckets the choice is
\* fixed by the input (the first listed); none is reported when every bucket
\* is empty.
C25_MostProductive ==
    smPc = "awaitModel" =>
        LET statistics == smPrompt.statistics
        IN  /\ RightChoice(statistics.mostProductiveWeekday,
                           <<"Monday", "Tuesday", "Wednesday", "Thursday", "Friday",
                             "Saturday", "Sunday">>,
                           statistics.weekdayProductivity)
            /\ RightChoice(statistics.mostProductiveTimeSlot,
                           <<"morning", "afternoon", "evening", "night">>,
                           statistics.timeSlots)

\* Tuesday and Wednesday tie at rate 0 and Tuesday is reported, while no
\* task has a due instant and no time slot is reported
C25_Witness ==
    /\ smPc = "awaitModel"
    /\ smPrompt.statistics.weekdayProductivity["Tuesday"] = [total |-> 1, completed |-> 0]
    /\ smPrompt.statistics.weekdayProductivity["Wednesday"] = [total |-> 1, completed |-> 0]
    /\ smPrompt.statistics.mostProductiveWeekday = "Tuesday"
    /\ smPrompt.statistics.mostProductiveTimeSlot = "undefined"

(***************************************************************************)
(* C26.                                                                    *)
(***************************************************************************)
\* the task falls in the comparison period: the day before the day of now,
\* or the week before the week of now
InComparisonPeriod(todo) ==
    IF smReq.body.period = "today"
    THEN TargetInstant(todo) \div 24 = (smNow.at \div 24) - 1
    ELSE MondayOf(TargetInstant(todo) \div 24) = MondayOf(smNow.at \div 24) - 7

\* the snapshots that differ from the tasks read by the request only in
\* tasks of the comparison period: without any of them, or with one more
OtherSnapshots ==
    {smTodos.rows \ {todo \in smTodos.rows : InComparisonPeriod(todo)}}
    \cup {smTodos.rows \cup {row} :
             row \in {row \in TodoRows :
                         row.user_id = smReq.body.userId /\ InComparisonPeriod(row)}}

\* the statistics of the current period among the statistics
CurrentPeriodPart(statistics) ==
    [field \in DOMAIN statistics \ {"previousTotalTodos", "previousCompletedTodos",
                                    "previousCompletionRate", "completionRateChange"} |->
        statistics[field]]

\* C26: when the rows of the store have just been aggregated, then for any
\* snapshot that differs from the one read only in tasks of the comparison
\* period the request takes the same empty-period decision and computes the
\* same tasks and statistics of the current period.
C26_ComparisonIndependence ==
    (smTodos.k = "rows" /\ smCall \in {NULL, Pending}) =>
        \A other \in OtherSnapshots :
            LET filteredTodos ==
                    filterTodosByPeriod(other, periodInterval(smReq.body.period, smNow.at))
                previousTodos ==
                    filterTodosByPeriod(other, previousInterval(smReq.body.period, smNow.at))
            IN  /\ noTodosInPeriod(filteredTodos) <=> smPrompt = NULL
                /\ smPrompt # NULL =>
                      /\ filteredTodos = smPrompt.todosData
                      /\ CurrentPeriodPart(summaryStatistics(filteredTodos, previousTodos,
                                                             smNow.at))
                             = CurrentPeriodPart(smPrompt.statistics)

\* a request over a task of the period and a task of the comparison period,
\* whose completion rate has changed against the comparison period
C26_Witness ==
    /\ smPc = "awaitModel"
    /\ \E todo \in smTodos.rows : InComparisonPeriod(todo)
    /\ smPrompt.statistics.totalTodos = 1
    /\ smPrompt.statistics.previousTotalTodos = 1
    /\ smPrompt.statistics.completionRateChange.num # 0

(***************************************************************************)
(* C27.                                                                    *)
(***************************************************************************)
\* the request has arrived and its body names no user, or a user other than
\* the one of the caller's session, or the caller has no session
C27_NotTheCaller ==
    /\ smPc \notin {"idle", "off"}
    /\ \/ smReq.caller = Undefined
       \/ smReq.body.k = "notJson"
       \/ smReq.body.userId # smReq.caller

\* the request has passed the checks made before the session is looked up
C27_PassedValidation ==
    /\ smReq.apiKey = "ok"
    /\ smReq.body.k = "json"
    /\ smReq.body.period \in {"today", "week"}
    /\ smReq.body.userId # Undefined

C28_OverdueIsUrgent ==
    smPc = "awaitModel" =>
        /\ smPrompt.statistics.overdueTodos \subseteq smPrompt.statistics.urgentTasks
        /\ \A todo \in OwnerTodos :
              (/\ InRequestedPeriod(todo)
               /\ ~todo.completed
               /\ todo.due_date # NULL
               /\ todo.due_date.at < smNow.at) =>
                  todo \in smPrompt.statistics.urgentTasks

\* a task that is not of high priority and is 2 days overdue is reported as
\* urgent
C28_Witness ==
    /\ smPc = "awaitModel"
    /\ \E entry \in smPrompt.statistics.postponedTasks :
          /\ entry.daysOverdue = 2
          /\ entry.todo.priority # "high"
          /\ entry.todo \in smPrompt.statistics.urgentTasks

(***************************************************************************)
(* C29.                                                                    *)
(***************************************************************************)
\* the step in which the update of a toggle is answered with a failure
C29_RollbackStep ==
    /\ dbCalls.toggle.pc = "awaitStore"
    /\ dbCalls'.toggle = Idle

\* C29: in every interleaving of the toggle, add, edit and delete handlers,
\* the rollback of a toggle whose store update failed changes nothing in the
\* displayed list but the completed flag of the toggled task, which it sets
\* back; what the other handlers have put in the list in the meantime stays.
C29_RollbackOnlyFlag ==
    [][C29_RollbackStep =>
          dbTodos' = {IF t.id = dbCalls.toggle.id
                      THEN [t EXCEPT !.completed = ~dbCalls.toggle.newCompletedState]
                      ELSE t : t \in dbTodos}]_vars

(***************************************************************************)
(* C30.                                                                    *)
(***************************************************************************)
\* C30: after a sign-out the exposed user stays null until a sign-in or a
\* token refresh carrying a user, or a fetchUser started after the sign-out,
\* installs one: no step makes the exposed user non-null while the client
\* holds no session, so a fetchUser that was waiting for getUser when the
\* sign-out was handled does not put the signed-out user back.
C30_NoStaleUser ==
    [][(authState.user = Undefined /\ authState'.user # Undefined) =>
          auSession' # Undefined]_vars

====
